---- MODULE Spec2Model ----
(***************************************************************************)
(* Streaming chat client of the Urmston Town registration portal.          *)
(*                                                                         *)
(* Text is a sequence of tokens.  The line terminators and the blank are   *)
(* single characters; every other token stands for a run of characters     *)
(* that holds no white space ("data:" is the five-character field name, a  *)
(* payload token is the JSON text of one event).  Cutting a stream into    *)
(* chunks between tokens is every cut the frame loops can tell apart,      *)
(* since they only ever look at the concatenated buffer.                   *)
(***************************************************************************)
EXTENDS Integers, Sequences, FiniteSets, TLC

LF == "\n"
CR == "\r"
SP == " "
DATA == "data:"

WhiteSpace == {LF, CR, SP}

LFLF == <<LF, LF>>
CRLFCRLF == <<CR, LF, CR, LF>>

----------------------------------------------------------------------------
(* String primitives of the host language, on token sequences.  Indices    *)
(* are 0-based as in the source; -1 is "not found".                        *)

StartsWith(s, p) ==
    /\ Len(s) >= Len(p)
    /\ SubSeq(s, 1, Len(p)) = p

Substring(s, from) ==
    SubSeq(s, from + 1, Len(s))

Substring2(s, from, to) ==
    SubSeq(s, from + 1, to)

IndexOf(s, p) ==
    LET hits == {i \in 0..(Len(s) - Len(p)) : SubSeq(s, i + 1, i + Len(p)) = p}
    IN IF hits = {} THEN -1 ELSE CHOOSE i \in hits : \A j \in hits : i <= j

Trim(s) ==
    LET solid == {i \in 1..Len(s) : s[i] \notin WhiteSpace}
    IN IF solid = {} THEN <<>>
       ELSE SubSeq(s, CHOOSE i \in solid : \A j \in solid : i <= j,
                      CHOOSE i \in solid : \A j \in solid : i >= j)

----------------------------------------------------------------------------
(* Frame splitting, ChatPage.handleSendMessage: one turn of the inner      *)
(* while loop.  The loop condition tries "\n\n" first and looks for        *)
(* "\r\n\r\n" only when there is no "\n\n" anywhere in the buffer.         *)

boundaryIdx(fetchBuffer) ==
    IF IndexOf(fetchBuffer, LFLF) # -1
    THEN IndexOf(fetchBuffer, LFLF)
    ELSE IndexOf(fetchBuffer, CRLFCRLF)

messageEndIdx(fetchBuffer) ==
    boundaryIdx(fetchBuffer)
    + (IF StartsWith(Substring(fetchBuffer, boundaryIdx(fetchBuffer)), CRLFCRLF)
       THEN 4 ELSE 2)

rawEventData(fetchBuffer) ==
    Trim(Substring2(fetchBuffer, 0, boundaryIdx(fetchBuffer)))

(* Frame splitting, ChatInterface.processStreamChunk: the earlier of the   *)
(* two delimiters wins.                                                    *)

(* Sensitivity variant of newlineIndex: a single line feed taken for the   *)
(* blank line.                                                             *)
newlineIndex_singleLF(remainingBuffer) == IndexOf(remainingBuffer, <<LF>>)

newlineIndex(remainingBuffer) == IndexOf(remainingBuffer, LFLF)

crlfIndex(remainingBuffer) == IndexOf(remainingBuffer, CRLFCRLF)

boundaryIndex(remainingBuffer) ==
    LET n == newlineIndex(remainingBuffer)
        c == crlfIndex(remainingBuffer)
    IN IF n # -1 /\ c # -1 THEN (IF n < c THEN n ELSE c)
       ELSE IF n # -1 THEN n
       ELSE IF c # -1 THEN c
       ELSE -1

delimiterLength(remainingBuffer) ==
    LET n == newlineIndex(remainingBuffer)
        c == crlfIndex(remainingBuffer)
    IN IF n # -1 /\ c # -1 THEN (IF n < c THEN 2 ELSE 4)
       ELSE IF n # -1 THEN 2
       ELSE IF c # -1 THEN 4
       ELSE 0

messageBlock(remainingBuffer) ==
    Trim(Substring2(remainingBuffer, 0, boundaryIndex(remainingBuffer)))

(* The two loops run to the end of the buffer: the blocks cut off, in      *)
(* order, and the unterminated rest that is carried to the next chunk.     *)
(* processStreamChunk skips a block that trims to nothing.                 *)

RECURSIVE FrameLoop(_, _)
FrameLoop(fetchBuffer, frames) ==
    IF boundaryIdx(fetchBuffer) = -1
    THEN [frames |-> frames, rest |-> fetchBuffer]
    ELSE FrameLoop(Substring(fetchBuffer, messageEndIdx(fetchBuffer)),
                   Append(frames, rawEventData(fetchBuffer)))

RECURSIVE processStreamChunkLoop(_, _)
processStreamChunkLoop(remainingBuffer, frames) ==
    IF boundaryIndex(remainingBuffer) = -1
    THEN [frames |-> frames, rest |-> remainingBuffer]
    ELSE processStreamChunkLoop(
             Substring(remainingBuffer,
                       boundaryIndex(remainingBuffer) + delimiterLength(remainingBuffer)),
             IF messageBlock(remainingBuffer) = <<>>
             THEN frames
             ELSE Append(frames, messageBlock(remainingBuffer)))

Splitter(variant, buffer) ==
    IF variant = "ChatPage"
    THEN FrameLoop(buffer, <<>>)
    ELSE processStreamChunkLoop(buffer, <<>>)

----------------------------------------------------------------------------
(* Message ids.  An id is a string; the model keeps the two parts the code *)
(* builds it from.  `user-${Date.now()}` and `error-${Date.now()}` carry   *)
(* the clock, the ids of assistant messages are chosen by the server.      *)

UserId(t) == <<"user-", t>>

ErrorId(t) == <<"error-", t>>

ServerId(n) == <<"a", n>>

Null == <<"null", 0>>

EmptyId == <<"", 0>>

(* Message content is a string, kept as the sequence of the pieces it was  *)
(* put together from; '' is the empty sequence.                            *)

Message(id, role, content, agentName, isLoading) ==
    [id |-> id, role |-> role, content |-> content,
     agentName |-> agentName, isLoading |-> isLoading]

(* A field the code leaves out of a message (agentName of a user message,  *)
(* isLoading of a user or error message) is undefined, which reads as      *)
(* falsy: "" and FALSE here.                                               *)

initialState ==
    [messages |-> <<>>,
     messageOrder |-> <<>>,
     isLoading |-> FALSE,
     loadingMessageId |-> Null,
     currentAssistantMessageId |-> Null]

Has(messages, id) == id \in DOMAIN messages

Put(messages, id, msg) == (id :> msg) @@ messages

(* chatReducer, one operator per case of the switch.                       *)

ADD_USER_MESSAGE(state, payload) ==
    [state EXCEPT !.isLoading = TRUE,
                  !.messages = Put(state.messages, payload.id, payload),
                  !.messageOrder = Append(state.messageOrder, payload.id)]

(* Sensitivity variant of START_ASSISTANT_MESSAGE: the id put at the front *)
(* of messageOrder.                                                        *)
START_ASSISTANT_MESSAGE_prepends(state, id, agentName) ==
    [state EXCEPT !.currentAssistantMessageId = id,
                  !.loadingMessageId = id,
                  !.messages = Put(state.messages, id,
                                   Message(id, "assistant", <<>>,
                                           IF agentName = "" THEN "Assistant" ELSE agentName,
                                           TRUE)),
                  !.messageOrder = <<id>> \o state.messageOrder]

START_ASSISTANT_MESSAGE(state, id, agentName) ==
    [state EXCEPT !.currentAssistantMessageId = id,
                  !.loadingMessageId = id,
                  !.messages = Put(state.messages, id,
                                   Message(id, "assistant", <<>>,
                                           IF agentName = "" THEN "Assistant" ELSE agentName,
                                           TRUE)),
                  !.messageOrder = Append(state.messageOrder, id)]

(* Sensitivity variant of APPEND_DELTA: the test on loadingMessageId left  *)
(* out of the guard.                                                       *)
APPEND_DELTA_anyMessage(state, id, delta) ==
    IF ~Has(state.messages, id) THEN state
    ELSE [state EXCEPT !.messages[id].content = @ \o <<delta>>]

APPEND_DELTA(state, id, delta) ==
    IF ~Has(state.messages, id) \/ state.loadingMessageId # id THEN state
    ELSE [state EXCEPT !.messages[id].content = @ \o <<delta>>]

(* Sensitivity variant of UPDATE_ASSISTANT_JSON_CONTENT: the text added    *)
(* to the content instead of put in its place.                             *)
UPDATE_ASSISTANT_JSON_CONTENT_append(state, id, agentResponseText) ==
    IF ~Has(state.messages, id) THEN state
    ELSE [state EXCEPT !.messages[id].content = @ \o agentResponseText]

UPDATE_ASSISTANT_JSON_CONTENT(state, id, agentResponseText) ==
    IF ~Has(state.messages, id) THEN state
    ELSE [state EXCEPT !.messages[id].content = agentResponseText]

UPDATE_AGENT_NAME(state, id, agentName) ==
    IF ~Has(state.messages, id) \/ state.loadingMessageId # id THEN state
    ELSE [state EXCEPT !.messages[id].agentName = agentName]

(* Sensitivity variant of COMPLETE_ASSISTANT_MESSAGE: the two active ids   *)
(* left as they are.                                                       *)
COMPLETE_ASSISTANT_MESSAGE_idsKept(state, id) ==
    IF state.loadingMessageId # id /\ state.currentAssistantMessageId # id THEN state
    ELSE [state EXCEPT !.messages = IF Has(state.messages, id)
                                    THEN [state.messages EXCEPT ![id].isLoading = FALSE]
                                    ELSE state.messages,
                       !.isLoading = FALSE]

(* Sensitivity variant of COMPLETE_ASSISTANT_MESSAGE: the message itself   *)
(* left as it is.                                                          *)
COMPLETE_ASSISTANT_MESSAGE_flagsOnly(state, id) ==
    IF state.loadingMessageId # id /\ state.currentAssistantMessageId # id THEN state
    ELSE [state EXCEPT !.isLoading = FALSE,
                       !.loadingMessageId = Null,
                       !.currentAssistantMessageId = Null]

COMPLETE_ASSISTANT_MESSAGE(state, id) ==
    IF state.loadingMessageId # id /\ state.currentAssistantMessageId # id THEN state
    ELSE [state EXCEPT !.messages = IF Has(state.messages, id)
                                    THEN [state.messages EXCEPT ![id].isLoading = FALSE]
                                    ELSE state.messages,
                       !.isLoading = FALSE,
                       !.loadingMessageId = Null,
                       !.currentAssistantMessageId = Null]

(* Sensitivity variant of SET_ERROR: currentAssistantMessageId left as it  *)
(* is.                                                                     *)
SET_ERROR_keepsCurrent(state, errorContent, t) ==
    [state EXCEPT !.isLoading = FALSE,
                  !.loadingMessageId = Null,
                  !.messages = Put(state.messages, ErrorId(t),
                                   Message(ErrorId(t), "assistant",
                                           <<"Error: ", errorContent>>,
                                           "System Error", FALSE)),
                  !.messageOrder = Append(state.messageOrder, ErrorId(t))]

SET_ERROR(state, errorContent, t) ==
    [state EXCEPT !.isLoading = FALSE,
                  !.loadingMessageId = Null,
                  !.currentAssistantMessageId = Null,
                  !.messages = Put(state.messages, ErrorId(t),
                                   Message(ErrorId(t), "assistant",
                                           <<"Error: ", errorContent>>,
                                           "System Error", FALSE)),
                  !.messageOrder = Append(state.messageOrder, ErrorId(t))]

(* Sensitivity variant of RESET_CHAT: the messages left in the store.       *)
RESET_CHAT_keepsMessages(state) == [initialState EXCEPT !.messages = state.messages]

RESET_CHAT(state) == initialState

----------------------------------------------------------------------------
(* The wire.  A payload token is the JSON text after "data:"; JSONparse    *)
(* gives the object it denotes.  A field the text does not carry is ""     *)
(* (undefined).                                                            *)

Event(event_type, id, agent_name, delta, error, status, display_message) ==
    [event_type |-> event_type, id |-> id, agent_name |-> agent_name,
     delta |-> delta, error |-> error, status |-> status,
     display_message |-> display_message]

DeltaOpen == "{\"agent_response_text\": \"Here"

DeltaClose == " are 3 players\"}"

PStart1 == "{\"event_type\":\"START_ASSISTANT_MESSAGE\",\"data\":{\"id\":\"a1\"}}"

PStart2 == "{\"event_type\":\"START_ASSISTANT_MESSAGE\",\"data\":{\"id\":\"a2\"}}"

PDeltaOpen == "{\"event_type\":\"RawResponsesStreamEvent\",\"data\":{\"delta\":\"{\\\"agent_response_text\\\": \\\"Here\"}}"

PDeltaClose == "{\"event_type\":\"RawResponsesStreamEvent\",\"data\":{\"delta\":\" are 3 players\\\"}\"}}"

PAgent == "{\"event_type\":\"AgentUpdatedStreamEvent\",\"data\":{\"agent_name\":\"Planner\"}}"

PComplete1 == "{\"event_type\":\"COMPLETE_ASSISTANT_MESSAGE\",\"data\":{\"id\":\"a1\"}}"

PComplete2 == "{\"event_type\":\"COMPLETE_ASSISTANT_MESSAGE\",\"data\":{\"id\":\"a2\"}}"

PValidation == "{\"event_type\":\"code_validation_result\",\"data\":{\"status\":\"invalid\",\"display_message\":\"Invalid code\"}}"

PServerError == "{\"event_type\":\"ServerError\",\"data\":{\"error\":\"boom\"}}"

PUnknown == "{\"event_type\":\"ToolCallEvent\",\"data\":{}}"

PMalformed == "{\"event_type\":"

PFinalOutput == "{\"event_type\":\"FinalOutputEvent\",\"data\":{}}"

PDone == "[DONE]"

JSONparse(text) ==
    CASE text = <<PStart1>> ->
           [ok |-> TRUE, value |-> Event("START_ASSISTANT_MESSAGE", ServerId(1), "", "", "", "", "")]
      [] text = <<PStart2>> ->
           [ok |-> TRUE, value |-> Event("START_ASSISTANT_MESSAGE", ServerId(2), "", "", "", "", "")]
      [] text = <<PDeltaOpen>> ->
           [ok |-> TRUE, value |-> Event("RawResponsesStreamEvent", EmptyId, "", DeltaOpen, "", "", "")]
      [] text = <<PDeltaClose>> ->
           [ok |-> TRUE, value |-> Event("RawResponsesStreamEvent", EmptyId, "", DeltaClose, "", "", "")]
      [] text = <<PAgent>> ->
           [ok |-> TRUE, value |-> Event("AgentUpdatedStreamEvent", EmptyId, "Planner", "", "", "", "")]
      [] text = <<PComplete1>> ->
           [ok |-> TRUE, value |-> Event("COMPLETE_ASSISTANT_MESSAGE", ServerId(1), "", "", "", "", "")]
      [] text = <<PComplete2>> ->
           [ok |-> TRUE, value |-> Event("COMPLETE_ASSISTANT_MESSAGE", ServerId(2), "", "", "", "", "")]
      [] text = <<PValidation>> ->
           [ok |-> TRUE, value |-> Event("code_validation_result", EmptyId, "", "", "", "invalid", "Invalid code")]
      [] text = <<PServerError>> ->
           [ok |-> TRUE, value |-> Event("ServerError", EmptyId, "", "", "boom", "", "")]
      [] text = <<PUnknown>> ->
           [ok |-> TRUE, value |-> Event("ToolCallEvent", EmptyId, "", "", "", "", "")]
      [] text = <<PFinalOutput>> ->
           [ok |-> TRUE, value |-> Event("FinalOutputEvent", EmptyId, "", "", "", "", "")]
      [] OTHER ->
           [ok |-> FALSE, value |-> Event("", EmptyId, "", "", "", "", "")]

(* JSON.parse of the accumulated deltas.  Of the texts the deltas above    *)
(* can add up to, one is a JSON value: DeltaOpen followed by DeltaClose,   *)
(* the object {"agent_response_text": "Here are 3 players"}.               *)

(* Deltas that are JSON texts on their own, none of them an object with    *)
(* the field, and one that is the start of an object.  "5" repeated is     *)
(* again a number; every other concatenation of these is not JSON.         *)
JsonNull == "null"

JsonDigit == "5"

JsonString == "\"hi\""

JsonArray == "[1]"

JsonEmptyObject == "{}"

JsonCut == "{\"a\":"

JsonNullField == "{\"agent_response_text\": null}"

JsonNumberField == "{\"agent_response_text\": 5}"

(* A JavaScript value that is no string, where a text is expected: a text  *)
(* is a sequence of pieces of text, null and a number are a sequence of    *)
(* one marked item.                                                        *)
JSnull == <<"#null">>

JSnumber == <<"#number 5">>

IsString(v) == \A i \in 1..Len(v) : <<v[i]>> \notin {JSnull, JSnumber}

(* kind is the type of the parsed value, "SyntaxError" when JSON.parse     *)
(* throws.  hasField: the value has a property agent_response_text that    *)
(* is not undefined.                                                       *)
JSONparseBuffer(buffer) ==
    IF buffer = <<DeltaOpen, DeltaClose>>
    THEN [ok |-> TRUE, kind |-> "object", hasField |-> TRUE,
          agent_response_text |-> <<"Here are 3 players">>]
    ELSE IF buffer = <<JsonNullField>>
    THEN [ok |-> TRUE, kind |-> "object", hasField |-> TRUE, agent_response_text |-> JSnull]
    ELSE IF buffer = <<JsonNumberField>>
    THEN [ok |-> TRUE, kind |-> "object", hasField |-> TRUE, agent_response_text |-> JSnumber]
    ELSE IF buffer = <<JsonNull>>
    THEN [ok |-> TRUE, kind |-> "null", hasField |-> FALSE, agent_response_text |-> <<>>]
    ELSE IF buffer # <<>> /\ \A i \in 1..Len(buffer) : buffer[i] = JsonDigit
    THEN [ok |-> TRUE, kind |-> "number", hasField |-> FALSE, agent_response_text |-> <<>>]
    ELSE IF buffer = <<JsonString>>
    THEN [ok |-> TRUE, kind |-> "string", hasField |-> FALSE, agent_response_text |-> <<>>]
    ELSE IF buffer = <<JsonArray>>
    THEN [ok |-> TRUE, kind |-> "array", hasField |-> FALSE, agent_response_text |-> <<>>]
    ELSE IF buffer = <<JsonEmptyObject>>
    THEN [ok |-> TRUE, kind |-> "object", hasField |-> FALSE, agent_response_text |-> <<>>]
    ELSE [ok |-> FALSE, kind |-> "SyntaxError", hasField |-> FALSE,
          agent_response_text |-> <<>>]

(* What the statements of the try block of the incremental and of the      *)
(* final parse throw: JSON.parse a SyntaxError, the read of                *)
(* .agent_response_text on null a TypeError.                               *)
thrownInTry(buffer) ==
    IF ~JSONparseBuffer(buffer).ok THEN "SyntaxError"
    ELSE IF JSONparseBuffer(buffer).kind = "null" THEN "TypeError"
    ELSE "none"

(* Sensitivity variant of catches: only the SyntaxError of JSON.parse      *)
(* caught.                                                                 *)
catches_syntaxErrorOnly(thrown) == thrown = "SyntaxError"

(* catch (_e) {} and catch (parseError) { console.warn(...) }: whatever    *)
(* the try block threw is caught and nothing is thrown again.              *)
catches(thrown) == thrown \in {"SyntaxError", "TypeError"}

(* An exception leaves the parse attempt on this accumulator value.        *)
escapes(buffer) ==
    thrownInTry(buffer) # "none" /\ ~catches(thrownInTry(buffer))

----------------------------------------------------------------------------
(* ChatPage.handleSendMessage, the body of the frame loop.  c holds what   *)
(* the loop reads and writes: the reducer state (through dispatch), the    *)
(* shared ref currentAssistantJsonBuffer, the locals fetchBuffer and       *)
(* activeMessageId.  errored records that the error branch was taken, brk  *)
(* that the loop was left through its break, clockRead that SET_ERROR read *)
(* Date.now() (t is the value it read).                                    *)

onStart(c, ev) ==
    [c EXCEPT !.activeMessageId = ev.id,
              !.jsonBuffer = <<>>,
              !.state = START_ASSISTANT_MESSAGE(c.state, ev.id, ev.agent_name)]

onDelta(c, ev) ==
    IF c.activeMessageId = EmptyId THEN c
    ELSE LET buffer == c.jsonBuffer \o <<ev.delta>>
             parsedBuffer == JSONparseBuffer(buffer)
         IN [c EXCEPT !.jsonBuffer = buffer,
                      !.state = IF parsedBuffer.ok /\ parsedBuffer.hasField
                                THEN UPDATE_ASSISTANT_JSON_CONTENT(
                                         c.state, c.activeMessageId,
                                         parsedBuffer.agent_response_text)
                                ELSE c.state]

onAgentUpdated(c, ev) ==
    IF c.activeMessageId = EmptyId THEN c
    ELSE [c EXCEPT !.state = UPDATE_AGENT_NAME(c.state, c.activeMessageId, ev.agent_name)]

(* Sensitivity variant of onComplete: the id of the event not compared     *)
(* with activeMessageId.                                                   *)
onComplete_anyId(c, ev) ==
    IF c.activeMessageId = EmptyId THEN c
    ELSE LET structuredResp == JSONparseBuffer(c.jsonBuffer)
             updated == IF structuredResp.ok /\ structuredResp.hasField
                        THEN UPDATE_ASSISTANT_JSON_CONTENT(
                                 c.state, c.activeMessageId,
                                 structuredResp.agent_response_text)
                        ELSE c.state
         IN [c EXCEPT !.state = COMPLETE_ASSISTANT_MESSAGE(updated, ev.id),
                      !.jsonBuffer = <<>>,
                      !.activeMessageId = EmptyId]

onComplete(c, ev) ==
    IF c.activeMessageId = EmptyId \/ c.activeMessageId # ev.id THEN c
    ELSE LET structuredResp == JSONparseBuffer(c.jsonBuffer)
             updated == IF structuredResp.ok /\ structuredResp.hasField
                        THEN UPDATE_ASSISTANT_JSON_CONTENT(
                                 c.state, c.activeMessageId,
                                 structuredResp.agent_response_text)
                        ELSE c.state
         IN [c EXCEPT !.state = COMPLETE_ASSISTANT_MESSAGE(updated, ev.id),
                      !.jsonBuffer = <<>>,
                      !.activeMessageId = EmptyId]

(* Sensitivity variant of onValidation: the message is completed with the  *)
(* validation text.                                                        *)
onValidation_completes(c, ev) ==
    IF c.activeMessageId = EmptyId THEN c
    ELSE LET valText == IF ev.status = "invalid" /\ ev.display_message # ""
                        THEN <<ev.display_message>>
                        ELSE <<"Code validation result received.">>
         IN [c EXCEPT !.state = COMPLETE_ASSISTANT_MESSAGE(
                                    UPDATE_ASSISTANT_JSON_CONTENT(
                                        c.state, c.activeMessageId, valText),
                                    c.activeMessageId)]

onValidation(c, ev) ==
    IF c.activeMessageId = EmptyId THEN c
    ELSE LET valText == IF ev.status = "invalid" /\ ev.display_message # ""
                        THEN <<ev.display_message>>
                        ELSE <<"Code validation result received.">>
         IN [c EXCEPT !.state = UPDATE_ASSISTANT_JSON_CONTENT(
                                    c.state, c.activeMessageId, valText)]

onError(c, ev, t) ==
    LET failed == SET_ERROR(c.state,
                            IF ev.error = "" THEN "Unknown backend error" ELSE ev.error,
                            t)
    IN [c EXCEPT !.state = IF c.activeMessageId # EmptyId
                           THEN COMPLETE_ASSISTANT_MESSAGE(failed, c.activeMessageId)
                           ELSE failed,
                 !.errored = TRUE,
                 !.clockRead = TRUE,
                 !.brk = TRUE]

onEvent(c, ev, t) ==
    IF ev.event_type = "START_ASSISTANT_MESSAGE" THEN onStart(c, ev)
    ELSE IF ev.event_type = "RawResponsesStreamEvent" /\ ev.delta # "" THEN onDelta(c, ev)
    ELSE IF ev.event_type = "AgentUpdatedStreamEvent" /\ ev.agent_name # ""
         THEN onAgentUpdated(c, ev)
    ELSE IF ev.event_type = "COMPLETE_ASSISTANT_MESSAGE" THEN onComplete(c, ev)
    ELSE IF ev.event_type = "code_validation_result" THEN onValidation(c, ev)
    ELSE IF ev.event_type \in {"ServerError", "AgentErrorEvent"} THEN onError(c, ev, t)
    ELSE c

(* The text handed to JSON.parse, <<>> when the frame is passed over.      *)
(* substring(5) drops the five characters of "data:", one token here.      *)
jsonDataString(frame) ==
    IF ~StartsWith(frame, <<DATA, SP>>) THEN <<>>
    ELSE IF Trim(Substring(frame, 1)) = <<PDone>> THEN <<>>
    ELSE Trim(Substring(frame, 1))

(* Sensitivity variant of onFrame: the exception of JSON.parse not caught  *)
(* inside the loop, so that it reaches the catch of the whole call.        *)
onFrame_uncaught(c, frame, t) ==
    IF jsonDataString(frame) = <<>> THEN c
    ELSE IF JSONparse(jsonDataString(frame)).ok
         THEN onEvent(c, JSONparse(jsonDataString(frame)).value, t)
         ELSE [c EXCEPT !.state = SET_ERROR(c.state, "Unexpected end of JSON input", t),
                        !.fetchBuffer = <<>>,
                        !.brk = TRUE]

onFrame(c, frame, t) ==
    IF jsonDataString(frame) = <<>> THEN c
    ELSE IF JSONparse(jsonDataString(frame)).ok
         THEN onEvent(c, JSONparse(jsonDataString(frame)).value, t)
         ELSE c

(* ChatInterface.processStreamChunk, the scan for the data line: the block *)
(* is split at line feeds, each line trimmed; the last line that starts    *)
(* with "data:" gives the text, <<>> (null) when there is none.            *)
RECURSIVE Split(_, _)
Split(s, sep) ==
    IF IndexOf(s, <<sep>>) = -1 THEN <<s>>
    ELSE <<Substring2(s, 0, IndexOf(s, <<sep>>))>>
         \o Split(Substring(s, IndexOf(s, <<sep>>) + 1), sep)

RECURSIVE scanLines(_, _)
scanLines(lines, found) ==
    IF lines = <<>> THEN found
    ELSE LET cleanedLine == Trim(Head(lines))
         IN scanLines(Tail(lines),
                      IF StartsWith(cleanedLine, <<DATA>>)
                      THEN Trim(Substring(cleanedLine, 1))
                      ELSE found)

eventJsonString(block) == scanLines(Split(block, LF), <<>>)

(* What a frame decodes to: the parsed event, or nothing.                  *)
NoEvent == [ok |-> FALSE, value |-> Event("", EmptyId, "", "", "", "", "")]

Decode(variant, frame) ==
    IF variant = "ChatPage"
    THEN (IF jsonDataString(frame) = <<>> THEN NoEvent ELSE JSONparse(jsonDataString(frame)))
    ELSE (IF eventJsonString(frame) = <<>> THEN NoEvent ELSE JSONparse(eventJsonString(frame)))

RECURSIVE frameLoop(_, _)
frameLoop(c, t) ==
    IF boundaryIdx(c.fetchBuffer) = -1 THEN c
    ELSE LET c1 == onFrame([c EXCEPT !.fetchBuffer =
                                Substring(c.fetchBuffer, messageEndIdx(c.fetchBuffer))],
                           rawEventData(c.fetchBuffer), t)
         IN IF c1.brk THEN c1 ELSE frameLoop(c1, t)

----------------------------------------------------------------------------
(* ChatInterface: the messages array, the flags and the ref that           *)
(* processStreamChunk works on.  held.messages is the array (a sequence),  *)
(* held.currentAssistantMessageId the ref of that name (Null when null),   *)
(* held.lastAgentName the state of that name and held.closureAgentName     *)
(* the value of it that the callback in use was created with ("" is        *)
(* null).                                                                  *)

AssistantId(n) == <<"assistant-", n>>

(* messages.findIndex(msg => msg.id === ref && msg.role === 'assistant'),  *)
(* 0-based, -1 when there is none or the ref is null.                      *)
findIndex(messages, ref) ==
    LET hits == {i \in 1..Len(messages) :
                    messages[i].id = ref /\ messages[i].role = "assistant"}
    IN IF ref = Null \/ hits = {} THEN -1
       ELSE (CHOOSE i \in hits : \A j \in hits : i <= j) - 1

(* The message getOrCreateTargetMessage makes when there is none to go     *)
(* on with.  Its id is built from the clock and a random number: fresh,    *)
(* here the number of messages before it.                                  *)
newMsg(held) ==
    Message(AssistantId(Len(held.messages)), "assistant", <<>>,
            IF held.closureAgentName = "" THEN "Assistant" ELSE held.closureAgentName,
            FALSE)

(* The updater handed to setMessages for one parsed event, with the        *)
(* setIsLoading, setLastAgentName and ref writes it makes.                 *)
applyEvent(held, parsedData, t) ==
    LET protoIndex == findIndex(held.messages, held.currentAssistantMessageId)
        updatedMessages == IF protoIndex = -1
                           THEN Append(held.messages, newMsg(held))
                           ELSE held.messages
        idx == IF protoIndex = -1 THEN Len(updatedMessages) - 1 ELSE protoIndex
        targetMessage == updatedMessages[idx + 1]
        ref == IF protoIndex = -1 THEN newMsg(held).id ELSE held.currentAssistantMessageId
        created == [held EXCEPT !.messages = updatedMessages,
                                !.currentAssistantMessageId = ref]
    IN IF parsedData.event_type = "RawResponsesStreamEvent"
       THEN (IF parsedData.delta # ""
             THEN [created EXCEPT !.messages[idx + 1].content = @ \o <<parsedData.delta>>]
             ELSE created)
       ELSE IF parsedData.event_type \in {"RunItemStreamEvent", "AgentUpdatedStreamEvent"}
       THEN (IF parsedData.agent_name # ""
             THEN [created EXCEPT !.messages[idx + 1].agentName = parsedData.agent_name,
                                  !.lastAgentName = parsedData.agent_name]
             ELSE created)
       ELSE IF parsedData.event_type = "FinalOutputEvent"
       THEN [created EXCEPT !.isLoading = FALSE,
                            !.currentAssistantMessageId = Null]
       ELSE IF parsedData.event_type \in {"ServerError", "AgentErrorEvent"}
       THEN [created EXCEPT !.messages =
                                Append(updatedMessages,
                                       Message(ErrorId(t), "assistant",
                                               <<"Backend error: ",
                                                 IF parsedData.error = "" THEN "Unknown error"
                                                 ELSE parsedData.error>>,
                                               "System Error", FALSE)),
                            !.isLoading = FALSE,
                            !.currentAssistantMessageId = Null]
       ELSE created

(* processStreamChunk: the loop over the blocks of the buffer.  The result *)
(* is what the component holds afterwards and the buffer returned.         *)
RECURSIVE processStreamChunk(_, _, _)
processStreamChunk(held, remainingBuffer, t) ==
    IF boundaryIndex(remainingBuffer) = -1
    THEN [held |-> held, rest |-> remainingBuffer]
    ELSE LET block == messageBlock(remainingBuffer)
             rest == Substring(remainingBuffer,
                               boundaryIndex(remainingBuffer)
                               + delimiterLength(remainingBuffer))
         IN IF block = <<>> \/ eventJsonString(block) = <<>>
                           \/ ~JSONparse(eventJsonString(block)).ok
            THEN processStreamChunk(held, rest, t)
            ELSE processStreamChunk(
                     applyEvent(held, JSONparse(eventJsonString(block)).value, t),
                     rest, t)

----------------------------------------------------------------------------
(* The page: ChatPage with its reducer state, its refs and the calls of    *)
(* handleSendMessage that are under way.                                   *)

(* Bound of the page model: the number of handler runs (a submit, a        *)
(* settled fetch, a settled read, a reset) in one behaviour.               *)
MaxSteps == 6

(* Bound of the splitter check: the number of pieces a stream text is      *)
(* made of.                                                                *)
MaxPieces == 6

Sessions == 1..MaxSteps

Payloads ==
    {PStart1, PStart2, PDeltaOpen, PDeltaClose, PAgent, PComplete1, PComplete2,
     PValidation, PServerError, PUnknown, PMalformed, PDone}

CutPayloads == {PStart1, PServerError}

(* The id a START payload carries (EmptyId for any other payload), the    *)
(* COMPLETE payload of an id, the text a delta payload carries.            *)
StartedId(p) ==
    IF p = PStart1 THEN ServerId(1)
    ELSE IF p = PStart2 THEN ServerId(2)
    ELSE EmptyId

CompleteOf(id) == IF id = ServerId(1) THEN PComplete1 ELSE PComplete2

DeltaPayloads == {PDeltaOpen, PDeltaClose}

DeltaText(p) == IF p = PDeltaOpen THEN DeltaOpen ELSE DeltaClose

Line(p) == <<DATA, SP, p>>

(* What one read may deliver: a data line with its blank line (either      *)
(* form), a data line cut off before its terminator, a terminator on its   *)
(* own, or an error frame and the frame after it in one chunk.             *)
WireChunks ==
    {Line(p) \o term : p \in Payloads, term \in {LFLF, CRLFCRLF}}
    \cup {Line(p) : p \in CutPayloads}
    \cup {LFLF, CRLFCRLF}
    \cup {Line(PServerError) \o LFLF \o Line(PStart2) \o LFLF}

(* state: the reducer state.  currentAssistantJsonBuffer: the ref of that  *)
(* name, one per page.  sess[i]: the i-th call of handleSendMessage, its   *)
(* position (pc) and its locals.  now: the last value Date.now() gave.     *)
(* steps: handler runs so far.                                             *)
VARIABLES state, currentAssistantJsonBuffer, sess, now, steps

pageVars == <<state, currentAssistantJsonBuffer, sess, now, steps>>

(* The splitter check: the text of a stream, the part not yet delivered,   *)
(* the buffer carried between chunks, the blocks cut off so far.           *)
VARIABLES splVariant, splText, splRest, splCarry, splOut, splFeeds

splVars == <<splVariant, splText, splRest, splCarry, splOut, splFeeds>>

(* The decoder check: the frame handed to a decoder and what came out.    *)
VARIABLES decVariant, decFrame, decOut

decVars == <<decVariant, decFrame, decOut>>

(* One call of handleSendMessage on its own: what the call holds (the     *)
(* reducer state, the accumulator, its locals), the payloads its stream    *)
(* has delivered, and whether the stream has ended.                        *)
VARIABLES rpc, rplog, rpended

replayVars == <<rpc, rplog, rpended>>

(* One call of ChatInterface.handleSubmit on its own: what the component  *)
(* holds, the buffer of the call, the payloads its stream has delivered,   *)
(* whether the stream has ended.                                           *)
VARIABLES ci, cibuffer, cilog, ciended

interfaceVars == <<ci, cibuffer, cilog, ciended>>

(* chatReducer on its own: the store, the action dispatched last, the      *)
(* number of dispatches and the last value Date.now() gave.                *)
VARIABLES rdState, rdAction, rdCount, rdNow

reducerVars == <<rdState, rdAction, rdCount, rdNow>>

(* The partial-JSON extraction on its own: the store, the accumulator and  *)
(* activeMessageId of one call (exc), whether an exception has left a      *)
(* parse attempt, and the number of deltas handled.                        *)
VARIABLES exc, exRaised, exCount

extractVars == <<exc, exRaised, exCount>>

(* The scroll effects of ChatPage: where the view is (scPos), the state    *)
(* isAtBottom, the ref lastUserSend, Date.now() (scNow, in milliseconds),  *)
(* and what the effects depend on: the length of messageOrder, whether     *)
(* loadingMessageId is set, isLoading.                                     *)
VARIABLES scPos, scIsAtBottom, scLastUserSend, scNow, scOrderLen, scLoadingSet, scLoading

scrollVars ==
    <<scPos, scIsAtBottom, scLastUserSend, scNow, scOrderLen, scLoadingSet, scLoading>>

(* Two calls of handleSendMessage in their read loops at once: the store   *)
(* (duState) and the ref currentAssistantJsonBuffer (duBuffer) they share, *)
(* the locals of each call (duLocal), the deltas each stream has delivered *)
(* since its most recent START (duSince), the stream whose START was       *)
(* dispatched last (duOwner), and the number of reads so far.              *)
VARIABLES duState, duBuffer, duLocal, duSince, duOwner, duCount

duoVars == <<duState, duBuffer, duLocal, duSince, duOwner, duCount>>

(* ChatInterface's abort controller: the ref abortControllerRef (abRef, 0  *)
(* for null, else the number of the call whose controller it holds), the   *)
(* position of each call of handleSubmit (abCalls), the controllers that   *)
(* have been aborted (abAborted), the state isLoading, and whether the     *)
(* component is mounted.                                                   *)
VARIABLES abRef, abCalls, abAborted, abIsLoading, abMounted

abortVars == <<abRef, abCalls, abAborted, abIsLoading, abMounted>>

restVars == <<duoVars, abortVars>>

lateVars == <<extractVars, scrollVars, restVars>>

auxVars == <<decVars, replayVars, interfaceVars, reducerVars, lateVars>>

vars == <<pageVars, splVars, auxVars>>

idleSession ==
    [pc |-> "idle", fetchBuffer |-> <<>>, activeMessageId |-> EmptyId,
     errored |-> FALSE]

(* A call that has returned leaves nothing behind: its locals are gone.    *)
ended(pc) == [idleSession EXCEPT !.pc = pc]

NextCall ==
    CHOOSE s \in Sessions :
        sess[s].pc = "idle" /\ \A r \in Sessions : r < s => sess[r].pc # "idle"

(* Date.now() never goes back; a millisecond may or may not have passed    *)
(* since it was last read.                                                 *)
Clock == {now, now + 1}

Step ==
    /\ steps < MaxSteps
    /\ steps' = steps + 1
    /\ UNCHANGED <<splVars, auxVars>>

(* Sensitivity variant of handleSendMessage: the isLoading guard left out. *)
handleSendMessage_noGuard(userInput) ==
    /\ Step
    /\ \E t \in Clock :
          /\ now' = t
          /\ state' = ADD_USER_MESSAGE(state,
                          Message(UserId(t), "user", <<userInput>>, "", FALSE))
          /\ sess' = [sess EXCEPT ![NextCall].pc = "fetch"]
    /\ UNCHANGED currentAssistantJsonBuffer

(* Sensitivity variant of handleSendMessage: the user message dispatched   *)
(* before the isLoading guard is looked at.                                *)
handleSendMessage_guardAfterAdd(userInput) ==
    /\ Step
    /\ \E t \in Clock :
          /\ now' = t
          /\ state' = ADD_USER_MESSAGE(state,
                          Message(UserId(t), "user", <<userInput>>, "", FALSE))
          /\ sess' = IF state.isLoading
                     THEN [sess EXCEPT ![NextCall] = ended("returned")]
                     ELSE [sess EXCEPT ![NextCall].pc = "fetch"]
    /\ UNCHANGED currentAssistantJsonBuffer

(* handleSendMessage up to its first await: the isLoading guard, then the  *)
(* user message.                                                           *)
handleSendMessage(userInput) ==
    /\ Step
    /\ IF state.isLoading
       THEN /\ sess' = [sess EXCEPT ![NextCall] = ended("returned")]
            /\ UNCHANGED <<state, now>>
       ELSE \E t \in Clock :
            /\ now' = t
            /\ state' = ADD_USER_MESSAGE(state,
                            Message(UserId(t), "user", <<userInput>>, "", FALSE))
            /\ sess' = [sess EXCEPT ![NextCall].pc = "fetch"]
    /\ UNCHANGED currentAssistantJsonBuffer

(* await fetch(...) resolves with a response that is ok and has a body.    *)
fetchResolves(s) ==
    /\ sess[s].pc = "fetch"
    /\ Step
    /\ sess' = [sess EXCEPT ![s].pc = "read"]
    /\ UNCHANGED <<state, currentAssistantJsonBuffer, now>>

(* fetch rejects, or the response is not ok or has no body: the catch      *)
(* block dispatches SET_ERROR.                                             *)
fetchThrows(s, errMsg) ==
    /\ sess[s].pc = "fetch"
    /\ Step
    /\ \E t \in Clock :
          /\ now' = t
          /\ state' = SET_ERROR(state, errMsg, t)
    /\ sess' = [sess EXCEPT ![s] = ended("failed")]
    /\ UNCHANGED currentAssistantJsonBuffer

(* What the frame loop of call s starts from when a chunk has arrived.     *)
entry(s, chunk) ==
    [state |-> state,
     jsonBuffer |-> currentAssistantJsonBuffer,
     fetchBuffer |-> sess[s].fetchBuffer \o chunk,
     activeMessageId |-> sess[s].activeMessageId,
     errored |-> sess[s].errored,
     clockRead |-> FALSE,
     brk |-> FALSE]

(* reader.read() resolves with a chunk: it is appended to fetchBuffer and  *)
(* the frame loop runs.  Date.now() is read only when SET_ERROR runs.      *)
readChunk(s, chunk) ==
    /\ sess[s].pc = "read"
    /\ Step
    /\ \E c0 \in {frameLoop(entry(s, chunk), now)} :
       \E t \in (IF c0.clockRead THEN Clock ELSE {now}) :
       \E c \in {IF t = now THEN c0 ELSE frameLoop(entry(s, chunk), t)} :
          /\ now' = t
          /\ state' = c.state
          /\ currentAssistantJsonBuffer' = c.jsonBuffer
          /\ sess' = [sess EXCEPT ![s].fetchBuffer = c.fetchBuffer,
                                  ![s].activeMessageId = c.activeMessageId,
                                  ![s].errored = c.errored]

(* reader.read() resolves with done.                                       *)
readDone(s) ==
    /\ sess[s].pc = "read"
    /\ Step
    /\ state' = IF sess[s].activeMessageId # EmptyId
                THEN COMPLETE_ASSISTANT_MESSAGE(state, sess[s].activeMessageId)
                ELSE state
    /\ sess' = [sess EXCEPT ![s] = ended("done")]
    /\ UNCHANGED <<currentAssistantJsonBuffer, now>>

(* reader.read() rejects: the catch block dispatches SET_ERROR.            *)
readThrows(s, errMsg) ==
    /\ sess[s].pc = "read"
    /\ Step
    /\ \E t \in Clock :
          /\ now' = t
          /\ state' = SET_ERROR(state, errMsg, t)
    /\ sess' = [sess EXCEPT ![s] = ended("failed")]
    /\ UNCHANGED currentAssistantJsonBuffer

handleReset ==
    /\ Step
    /\ state' = RESET_CHAT(state)
    /\ UNCHANGED <<currentAssistantJsonBuffer, sess, now>>

PageInit ==
    /\ state = initialState
    /\ currentAssistantJsonBuffer = <<>>
    /\ sess = [s \in Sessions |-> idleSession]
    /\ now = 0
    /\ steps = 0

SplitIdle ==
    /\ splVariant = "ChatPage"
    /\ splText = <<>>
    /\ splRest = <<>>
    /\ splCarry = <<>>
    /\ splOut = <<>>
    /\ splFeeds = 0

DecodeIdle ==
    /\ decVariant = "ChatPage"
    /\ decFrame = <<>>
    /\ decOut = <<>>

(* What a call holds right after its submit at time 0: the user message   *)
(* is in the conversation, the stream has delivered nothing.               *)
submitted ==
    [state |-> ADD_USER_MESSAGE(initialState,
                   Message(UserId(0), "user", <<"show u9s players">>, "", FALSE)),
     jsonBuffer |-> <<>>,
     fetchBuffer |-> <<>>,
     activeMessageId |-> EmptyId,
     errored |-> FALSE]

ReplayIdle ==
    /\ rpc = submitted
    /\ rplog = <<>>
    /\ rpended = FALSE

(* ChatInterface right after a first submit at time 0.                     *)
InterfaceIdle ==
    /\ ci = [messages |-> <<Message(UserId(0), "user", <<"show u9s players">>, "", FALSE)>>,
             isLoading |-> TRUE,
             lastAgentName |-> "",
             closureAgentName |-> "",
             currentAssistantMessageId |-> Null]
    /\ cibuffer = <<>>
    /\ cilog = <<>>
    /\ ciended = FALSE

ReducerIdle ==
    /\ rdState = initialState
    /\ rdAction = [type |-> "none", id |-> Null]
    /\ rdCount = 0
    /\ rdNow = 0

(* One call after START_ASSISTANT_MESSAGE a1.                              *)
started ==
    [state |-> START_ASSISTANT_MESSAGE(submitted.state, ServerId(1), "Assistant"),
     jsonBuffer |-> <<>>,
     activeMessageId |-> ServerId(1)]

ExtractIdle ==
    /\ exc = started
    /\ exRaised = FALSE
    /\ exCount = 0

ScrollIdle ==
    /\ scPos = "bottom"
    /\ scIsAtBottom = TRUE
    /\ scLastUserSend = 0
    /\ scNow = 0
    /\ scOrderLen = 0
    /\ scLoadingSet = FALSE
    /\ scLoading = FALSE

(* Call 1 has streamed START a1 and COMPLETE a1 and its stream is still    *)
(* open; the second submit has passed the isLoading guard and its fetch    *)
(* has resolved.                                                           *)
secondSubmitted ==
    ADD_USER_MESSAGE(
        COMPLETE_ASSISTANT_MESSAGE(started.state, ServerId(1)),
        Message(UserId(3), "user", <<"and the u10s">>, "", FALSE))

DuoIdle ==
    /\ duState = secondSubmitted
    /\ duBuffer = <<>>
    /\ duLocal = [s \in {1, 2} |-> [fetchBuffer |-> <<>>,
                                    activeMessageId |-> EmptyId,
                                    ended |-> FALSE]]
    /\ duSince = [s \in {1, 2} |-> <<>>]
    /\ duOwner = 1
    /\ duCount = 0

(* Bound: the number of calls of ChatInterface.handleSubmit.               *)
MaxSubmits == 3

AbortIdle ==
    /\ abRef = 0
    /\ abCalls = [k \in 1..MaxSubmits |-> "idle"]
    /\ abAborted = {}
    /\ abIsLoading = FALSE
    /\ abMounted = TRUE

RestIdle == DuoIdle /\ AbortIdle

LateIdle == ExtractIdle /\ ScrollIdle /\ RestIdle

AuxIdle == DecodeIdle /\ ReplayIdle /\ InterfaceIdle /\ ReducerIdle /\ LateIdle

Init == PageInit /\ SplitIdle /\ AuxIdle

(* The calls that are in their read loop, waiting for reader.read().       *)
Reading == {s \in Sessions : sess[s].pc = "read"}

Next ==
    \/ handleSendMessage("show u9s players")
    \/ \E s \in Sessions : fetchResolves(s)
    \/ \E s \in Sessions : fetchThrows(s, "Failed to fetch")
    \/ \E s \in Reading, chunk \in WireChunks : readChunk(s, chunk)
    \/ \E s \in Sessions : readDone(s)
    \/ \E s \in Sessions : readThrows(s, "network error")
    \/ handleReset

Spec == Init /\ [][Next]_vars

----------------------------------------------------------------------------
(* The splitter on its own: a stream text is cut into chunks at any        *)
(* places and fed to one of the two frame loops.                           *)

Pieces == {<<"x">>, <<LF>>, <<CR, LF>>}

RECURSIVE Texts(_)
Texts(n) ==
    IF n = 0 THEN {<<>>}
    ELSE Texts(n - 1) \cup {t \o p : t \in Texts(n - 1), p \in Pieces}

Variants == {"ChatPage", "ChatInterface"}

(* The reader hands over the next k characters of the stream; they are     *)
(* appended to the carried buffer and the loop runs on the result.         *)
Feed(k) ==
    /\ k \in 1..Len(splRest)
    /\ \E r \in {Splitter(splVariant, splCarry \o SubSeq(splRest, 1, k))} :
          /\ splOut' = splOut \o r.frames
          /\ splCarry' = r.rest
    /\ splRest' = Substring(splRest, k)
    /\ splFeeds' = splFeeds + 1
    /\ UNCHANGED <<splVariant, splText>>
    /\ UNCHANGED <<pageVars, auxVars>>

SplitInit ==
    /\ splVariant \in Variants
    /\ splText \in Texts(MaxPieces)
    /\ splRest = splText
    /\ splCarry = <<>>
    /\ splOut = <<>>
    /\ splFeeds = 0
    /\ PageInit
    /\ AuxIdle

SplitNext ==
    \E k \in 1..(2 * MaxPieces) : Feed(k)

SplitSpec == SplitInit /\ [][SplitNext]_vars

----------------------------------------------------------------------------
(* The decoders on their own: a frame with field lines before its data     *)
(* line, with either line ending, with or without the blank after          *)
(* "data:".                                                                *)

(* Bound of the decoder check: the number of field lines before the data   *)
(* line.                                                                   *)
MaxFieldLines == 2

FieldLines == {<<"event:", SP, "message">>, <<"id:", SP, "7">>}

LineEnds == {<<LF>>, <<CR, LF>>}

RECURSIVE FieldBlocks(_)
FieldBlocks(n) ==
    IF n = 0 THEN {<<>>}
    ELSE FieldBlocks(n - 1)
         \cup {b \o f \o e : b \in FieldBlocks(n - 1), f \in FieldLines, e \in LineEnds}

DecFrames ==
    {b \o <<DATA>> \o sep \o <<p>> :
        b \in FieldBlocks(MaxFieldLines), sep \in {<<>>, <<SP>>}, p \in Payloads}

(* The block reaches the decoder as the splitter cut it off.               *)
DecodeFrame ==
    /\ decOut = <<>>
    /\ decOut' = <<Decode(decVariant, decFrame)>>
    /\ UNCHANGED <<decVariant, decFrame>>
    /\ UNCHANGED <<pageVars, splVars, replayVars, interfaceVars, reducerVars, lateVars>>

DecodeInit ==
    /\ decVariant \in Variants
    /\ decFrame \in DecFrames
    /\ decOut = <<>>
    /\ PageInit
    /\ SplitIdle
    /\ ReplayIdle
    /\ InterfaceIdle
    /\ ReducerIdle
    /\ LateIdle

DecodeNext == DecodeFrame

DecodeSpec == DecodeInit /\ [][DecodeNext]_vars

----------------------------------------------------------------------------
(* One call of handleSendMessage on its own: the stream delivers whole     *)
(* frames, one a read, then ends.                                          *)

(* Bound of the single-call model: the number of frames a stream           *)
(* delivers.                                                               *)
MaxFrames == 4

(* The read loop's handling of one chunk, on what the call holds: the      *)
(* chunk is appended to fetchBuffer and the frame loop runs.  t is the     *)
(* clock at that time.                                                     *)
Process(held, chunk, t) ==
    LET c == frameLoop([state |-> held.state,
                        jsonBuffer |-> held.jsonBuffer,
                        fetchBuffer |-> held.fetchBuffer \o chunk,
                        activeMessageId |-> held.activeMessageId,
                        errored |-> held.errored,
                        clockRead |-> FALSE,
                        brk |-> FALSE], t)
    IN [state |-> c.state,
        jsonBuffer |-> c.jsonBuffer,
        fetchBuffer |-> c.fetchBuffer,
        activeMessageId |-> c.activeMessageId,
        errored |-> c.errored]

(* The done branch on what the call holds.                                 *)
(* Sensitivity variant of Finish: the done branch dispatches nothing.       *)
Finish_noDispatch(held) == held

Finish(held) ==
    [held EXCEPT !.state = IF held.activeMessageId # EmptyId
                           THEN COMPLETE_ASSISTANT_MESSAGE(held.state, held.activeMessageId)
                           ELSE held.state]

(* A millisecond passes between two reads.                                 *)
ReplayClock == Len(rplog) + 1

Deliver(p) ==
    /\ ~rpended
    /\ Len(rplog) < MaxFrames
    /\ rpc' = Process(rpc, Line(p) \o LFLF, ReplayClock)
    /\ rplog' = Append(rplog, p)
    /\ UNCHANGED rpended
    /\ UNCHANGED <<pageVars, splVars, decVars, interfaceVars, reducerVars, lateVars>>

StreamEnds ==
    /\ ~rpended
    /\ rpc' = Finish(rpc)
    /\ rpended' = TRUE
    /\ UNCHANGED rplog
    /\ UNCHANGED <<pageVars, splVars, decVars, interfaceVars, reducerVars, lateVars>>

ReplayInit ==
    /\ ReplayIdle
    /\ PageInit
    /\ SplitIdle
    /\ DecodeIdle
    /\ InterfaceIdle
    /\ ReducerIdle
    /\ LateIdle

ReplayNext ==
    \/ \E p \in Payloads : Deliver(p)
    \/ StreamEnds

ReplaySpec == ReplayInit /\ [][ReplayNext]_vars

----------------------------------------------------------------------------
(* One call of ChatInterface.handleSubmit on its own: the stream delivers  *)
(* whole frames, one a read, then ends.                                    *)

InterfacePayloads ==
    {PDeltaOpen, PDeltaClose, PAgent, PFinalOutput, PServerError, PUnknown,
     PMalformed, PStart1}

InterfaceClock == Len(cilog) + 1

ciDeliver(p) ==
    /\ ~ciended
    /\ Len(cilog) < MaxFrames
    /\ \E r \in {processStreamChunk(ci, cibuffer \o Line(p) \o LFLF, InterfaceClock)} :
          /\ ci' = r.held
          /\ cibuffer' = r.rest
    /\ cilog' = Append(cilog, p)
    /\ UNCHANGED ciended
    /\ UNCHANGED <<pageVars, splVars, decVars, replayVars, reducerVars, lateVars>>

(* The done branch: the rest of the buffer is flushed, then the flags are  *)
(* cleared.                                                                *)
ciDone ==
    /\ ~ciended
    /\ \E r \in {IF Trim(cibuffer) # <<>>
                  THEN processStreamChunk(ci, cibuffer \o LFLF, InterfaceClock)
                  ELSE [held |-> ci, rest |-> cibuffer]} :
          ci' = [r.held EXCEPT !.isLoading = FALSE,
                               !.currentAssistantMessageId = Null]
    /\ ciended' = TRUE
    /\ UNCHANGED <<cibuffer, cilog>>
    /\ UNCHANGED <<pageVars, splVars, decVars, replayVars, reducerVars, lateVars>>

InterfaceInit ==
    /\ InterfaceIdle
    /\ PageInit
    /\ SplitIdle
    /\ DecodeIdle
    /\ ReplayIdle
    /\ ReducerIdle
    /\ LateIdle

InterfaceNext ==
    \/ \E p \in InterfacePayloads : ciDeliver(p)
    \/ ciDone

InterfaceSpec == InterfaceInit /\ [][InterfaceNext]_vars

----------------------------------------------------------------------------
(* chatReducer on its own: any action, with any payload of a small set,    *)
(* dispatched in any order.                                                *)

MaxDispatches == 5

ReducerIds == {ServerId(1), ServerId(2)}

ReducerClock == {rdNow, rdNow + 1}

Dispatched(type, id) ==
    /\ rdCount < MaxDispatches
    /\ rdCount' = rdCount + 1
    /\ rdAction' = [type |-> type, id |-> id]
    /\ UNCHANGED <<pageVars, splVars, decVars, replayVars, interfaceVars, lateVars>>

dispatchADD_USER_MESSAGE(t) ==
    /\ Dispatched("ADD_USER_MESSAGE", UserId(t))
    /\ rdNow' = t
    /\ rdState' = ADD_USER_MESSAGE(rdState,
                       Message(UserId(t), "user", <<"show u9s players">>, "", FALSE))

dispatchSTART_ASSISTANT_MESSAGE(id) ==
    /\ Dispatched("START_ASSISTANT_MESSAGE", id)
    /\ rdState' = START_ASSISTANT_MESSAGE(rdState, id, "Assistant")
    /\ UNCHANGED rdNow

dispatchAPPEND_DELTA(id) ==
    /\ Dispatched("APPEND_DELTA", id)
    /\ rdState' = APPEND_DELTA(rdState, id, "Hello")
    /\ UNCHANGED rdNow

dispatchUPDATE_ASSISTANT_JSON_CONTENT(id) ==
    /\ Dispatched("UPDATE_ASSISTANT_JSON_CONTENT", id)
    /\ rdState' = UPDATE_ASSISTANT_JSON_CONTENT(rdState, id, <<"Here are 3 players">>)
    /\ UNCHANGED rdNow

dispatchUPDATE_AGENT_NAME(id) ==
    /\ Dispatched("UPDATE_AGENT_NAME", id)
    /\ rdState' = UPDATE_AGENT_NAME(rdState, id, "Planner")
    /\ UNCHANGED rdNow

dispatchCOMPLETE_ASSISTANT_MESSAGE(id) ==
    /\ Dispatched("COMPLETE_ASSISTANT_MESSAGE", id)
    /\ rdState' = COMPLETE_ASSISTANT_MESSAGE(rdState, id)
    /\ UNCHANGED rdNow

dispatchSET_ERROR(t) ==
    /\ Dispatched("SET_ERROR", ErrorId(t))
    /\ rdNow' = t
    /\ rdState' = SET_ERROR(rdState, "Failed to fetch", t)

dispatchRESET_CHAT ==
    /\ Dispatched("RESET_CHAT", Null)
    /\ rdState' = RESET_CHAT(rdState)
    /\ UNCHANGED rdNow

ReducerInit ==
    /\ ReducerIdle
    /\ LateIdle
    /\ PageInit
    /\ SplitIdle
    /\ DecodeIdle
    /\ ReplayIdle
    /\ InterfaceIdle

ReducerNext ==
    \/ \E t \in ReducerClock : dispatchADD_USER_MESSAGE(t)
    \/ \E id \in ReducerIds : dispatchSTART_ASSISTANT_MESSAGE(id)
    \/ \E id \in ReducerIds : dispatchAPPEND_DELTA(id)
    \/ \E id \in ReducerIds : dispatchUPDATE_ASSISTANT_JSON_CONTENT(id)
    \/ \E id \in ReducerIds : dispatchUPDATE_AGENT_NAME(id)
    \/ \E id \in ReducerIds : dispatchCOMPLETE_ASSISTANT_MESSAGE(id)
    \/ \E t \in ReducerClock : dispatchSET_ERROR(t)
    \/ dispatchRESET_CHAT

ReducerSpec == ReducerInit /\ [][ReducerNext]_vars

(* chatReducer when the server may also put the id of the first user       *)
(* message into a START_ASSISTANT_MESSAGE: payload.id is whatever the      *)
(* event carries.                                                          *)
EchoedIds == {UserId(0)}

EchoNext ==
    \/ ReducerNext
    \/ \E id \in EchoedIds : dispatchSTART_ASSISTANT_MESSAGE(id)

EchoSpec == ReducerInit /\ [][EchoNext]_vars

----------------------------------------------------------------------------
(* The partial-JSON extraction on its own: one call with message a1        *)
(* active receives deltas of any kind and then its COMPLETE.               *)

MaxDeltas == 3

ExtractDeltas ==
    {DeltaOpen, DeltaClose, JsonNull, JsonDigit, JsonString, JsonArray,
     JsonEmptyObject, JsonCut, JsonNullField, JsonNumberField}

(* A RawResponsesStreamEvent with delta d: the accumulator grows and the   *)
(* incremental parse runs.                                                 *)
exDelta(d) ==
    /\ exCount < MaxDeltas
    /\ exCount' = exCount + 1
    /\ exc' = onDelta(exc, Event("RawResponsesStreamEvent", EmptyId, "", d, "", "", ""))
    /\ exRaised' = (exRaised \/ (exc.activeMessageId # EmptyId
                                     /\ escapes(exc.jsonBuffer \o <<d>>)))
    /\ UNCHANGED <<pageVars, splVars, decVars, replayVars, interfaceVars, reducerVars, scrollVars, restVars>>

(* A code_validation_result while a1 is active: the content is replaced.   *)
exValidation ==
    /\ exc.activeMessageId # EmptyId
    /\ exc.state.messages[exc.activeMessageId].content = <<>>
    /\ exc' = onValidation(exc, Event("code_validation_result", EmptyId, "", "", "",
                                       "invalid", "Invalid code"))
    /\ UNCHANGED <<exRaised, exCount>>
    /\ UNCHANGED <<pageVars, splVars, decVars, replayVars, interfaceVars, reducerVars, scrollVars, restVars>>

(* The COMPLETE_ASSISTANT_MESSAGE of the active message: the final parse.  *)
exComplete ==
    /\ exc.activeMessageId # EmptyId
    /\ exc' = onComplete(exc, Event("COMPLETE_ASSISTANT_MESSAGE", exc.activeMessageId,
                                     "", "", "", "", ""))
    /\ exRaised' = (exRaised \/ escapes(exc.jsonBuffer))
    /\ UNCHANGED exCount
    /\ UNCHANGED <<pageVars, splVars, decVars, replayVars, interfaceVars, reducerVars, scrollVars, restVars>>

ExtractInit ==
    /\ LateIdle
    /\ PageInit
    /\ SplitIdle
    /\ DecodeIdle
    /\ ReplayIdle
    /\ InterfaceIdle
    /\ ReducerIdle

ExtractNext ==
    \/ \E d \in ExtractDeltas : exDelta(d)
    \/ exValidation
    \/ exComplete

ExtractSpec == ExtractInit /\ [][ExtractNext]_vars

----------------------------------------------------------------------------
(* The scroll effects of ChatPage.  An action is one handler with the      *)
(* render and the effects that follow it.                                  *)

MaxOrder == 4

MaxTime == 600

(* The loading scroll effect (deps: orderedMessages.length,                *)
(* loadingMessageId): TRUE when it sets scrollTop to scrollHeight.         *)
loadingScrollEffect(t, lastUserSend, loadingMessageIdSet) ==
    IF t - lastUserSend < 300 THEN FALSE
    ELSE loadingMessageIdSet

(* The auto-scroll effect (deps: messageOrder, isAtBottom): TRUE when it   *)
(* calls scrollMessagesToBottom.                                           *)
autoScrollEffect(userJustSent, isAtBottom) ==
    ~userJustSent /\ isAtBottom

(* The view after the effects: at the bottom when one of them scrolled;    *)
(* the scroll listener then sets isAtBottom.                               *)
Scrolled(scrolls) ==
    /\ scPos' = IF scrolls THEN "bottom" ELSE scPos
    /\ scIsAtBottom' = (scPos' = "bottom")
    /\ UNCHANGED <<pageVars, splVars, decVars, replayVars, interfaceVars, reducerVars,
                   extractVars, restVars>>

(* handleSendMessage up to the fetch: ADD_USER_MESSAGE, userJustSentRef    *)
(* set, lastUserSend set, and scrollMessagesToBottom in the next frame.    *)
scSend ==
    /\ ~scLoading
    /\ scOrderLen < MaxOrder
    /\ scOrderLen' = scOrderLen + 1
    /\ scLoading' = TRUE
    /\ scLastUserSend' = scNow
    /\ Scrolled(TRUE)
    /\ UNCHANGED <<scNow, scLoadingSet>>

(* START_ASSISTANT_MESSAGE: the order grows and loadingMessageId is set.   *)
scStart ==
    /\ scLoading
    /\ scOrderLen < MaxOrder
    /\ scOrderLen' = scOrderLen + 1
    /\ scLoadingSet' = TRUE
    /\ Scrolled(\/ loadingScrollEffect(scNow, scLastUserSend, TRUE)
                \/ autoScrollEffect(FALSE, scIsAtBottom))
    /\ UNCHANGED <<scNow, scLastUserSend, scLoading>>

(* COMPLETE_ASSISTANT_MESSAGE: loadingMessageId becomes null, the order    *)
(* stays.                                                                  *)
scComplete ==
    /\ scLoadingSet
    /\ scLoadingSet' = FALSE
    /\ scLoading' = FALSE
    /\ Scrolled(loadingScrollEffect(scNow, scLastUserSend, FALSE))
    /\ UNCHANGED <<scNow, scLastUserSend, scOrderLen>>

(* SET_ERROR: the order grows, loadingMessageId becomes null.              *)
scError ==
    /\ scLoading
    /\ scOrderLen < MaxOrder
    /\ scOrderLen' = scOrderLen + 1
    /\ scLoadingSet' = FALSE
    /\ scLoading' = FALSE
    /\ Scrolled(\/ loadingScrollEffect(scNow, scLastUserSend, FALSE)
                \/ autoScrollEffect(FALSE, scIsAtBottom))
    /\ UNCHANGED <<scNow, scLastUserSend>>

(* The user scrolls; the scroll listener sets isAtBottom.                  *)
scUserScrolls(to) ==
    /\ scOrderLen > 0
    /\ scPos # to
    /\ scPos' = to
    /\ scIsAtBottom' = (to = "bottom")
    /\ UNCHANGED <<scNow, scLastUserSend, scOrderLen, scLoadingSet, scLoading>>
    /\ UNCHANGED <<pageVars, splVars, decVars, replayVars, interfaceVars, reducerVars,
                   extractVars, restVars>>

(* Time passes.                                                            *)
scTick ==
    /\ scNow < MaxTime
    /\ scNow' = scNow + 150
    /\ UNCHANGED <<scPos, scIsAtBottom, scLastUserSend, scOrderLen, scLoadingSet, scLoading>>
    /\ UNCHANGED <<pageVars, splVars, decVars, replayVars, interfaceVars, reducerVars,
                   extractVars, restVars>>

ScrollInit ==
    /\ LateIdle
    /\ PageInit
    /\ SplitIdle
    /\ DecodeIdle
    /\ ReplayIdle
    /\ InterfaceIdle
    /\ ReducerIdle

ScrollNext ==
    \/ scSend
    \/ scStart
    \/ scComplete
    \/ scError
    \/ \E to \in {"bottom", "up"} : scUserScrolls(to)
    \/ scTick

ScrollSpec == ScrollInit /\ [][ScrollNext]_vars

----------------------------------------------------------------------------
(* Two calls of ChatPage.handleSendMessage in their read loops at once.    *)
(* Each stream delivers whole frames, one a read, in any interleaving with *)
(* the other; both calls dispatch to the one store and use the one ref     *)
(* currentAssistantJsonBuffer.                                             *)

(* Bound: the number of reads of the two calls together.                   *)
MaxReads == 4

DuoPayloads ==
    {PStart1, PStart2, PDeltaOpen, PDeltaClose, PComplete1, PComplete2}

DuoClock == duCount + 4

(* What call s holds when a read resolves.                                 *)
duoHeld(s) ==
    [state |-> duState,
     jsonBuffer |-> duBuffer,
     fetchBuffer |-> duLocal[s].fetchBuffer,
     activeMessageId |-> duLocal[s].activeMessageId,
     errored |-> FALSE]

(* reader.read() of call s resolves with the frame of payload p.           *)
duoRead(s, p) ==
    /\ ~duLocal[s].ended
    /\ duCount < MaxReads
    /\ duCount' = duCount + 1
    /\ \E c \in {Process(duoHeld(s), Line(p) \o LFLF, DuoClock)} :
          /\ duState' = c.state
          /\ duBuffer' = c.jsonBuffer
          /\ duLocal' = [duLocal EXCEPT ![s].fetchBuffer = c.fetchBuffer,
                                        ![s].activeMessageId = c.activeMessageId]
    /\ duSince' = IF StartedId(p) # EmptyId THEN [duSince EXCEPT ![s] = <<>>]
                  ELSE IF p \in DeltaPayloads
                       THEN [duSince EXCEPT ![s] = Append(duSince[s], DeltaText(p))]
                       ELSE duSince
    /\ duOwner' = IF StartedId(p) # EmptyId THEN s ELSE duOwner
    /\ UNCHANGED <<pageVars, splVars, decVars, replayVars, interfaceVars, reducerVars,
                   extractVars, scrollVars, abortVars>>

(* reader.read() of call s resolves with done.                             *)
duoDone(s) ==
    /\ ~duLocal[s].ended
    /\ duCount < MaxReads
    /\ duCount' = duCount + 1
    /\ duState' = Finish(duoHeld(s)).state
    /\ duLocal' = [duLocal EXCEPT ![s] = [fetchBuffer |-> <<>>,
                                          activeMessageId |-> EmptyId,
                                          ended |-> TRUE]]
    /\ UNCHANGED <<duBuffer, duSince, duOwner>>
    /\ UNCHANGED <<pageVars, splVars, decVars, replayVars, interfaceVars, reducerVars,
                   extractVars, scrollVars, abortVars>>

DuoInit ==
    /\ LateIdle
    /\ PageInit
    /\ SplitIdle
    /\ DecodeIdle
    /\ ReplayIdle
    /\ InterfaceIdle
    /\ ReducerIdle

DuoNext ==
    \/ \E s \in {1, 2}, p \in DuoPayloads : duoRead(s, p)
    \/ \E s \in {1, 2} : duoDone(s)

DuoSpec == DuoInit /\ [][DuoNext]_vars

----------------------------------------------------------------------------
(* ChatInterface: the calls of handleSubmit and the abort controller they  *)
(* share through abortControllerRef.  Call k makes controller k.           *)

InFlight == {k \in 1..MaxSubmits : abCalls[k] \in {"fetch", "read"} /\ k \notin abAborted}

NextSubmit ==
    CHOOSE k \in 1..MaxSubmits :
        abCalls[k] = "idle" /\ \A j \in 1..MaxSubmits : j < k => abCalls[j] # "idle"

abOthers ==
    UNCHANGED <<pageVars, splVars, decVars, replayVars, interfaceVars, reducerVars,
                extractVars, scrollVars, duoVars>>

(* The finally block of handleSubmit: abortControllerRef.current = null.   *)
settle(k) == 0

(* handleSubmit up to its fetch: the guard, the abort of the controller    *)
(* in the ref, the new controller, setIsLoading(true).                     *)
abSubmit(inputValue) ==
    /\ abMounted
    /\ \E k \in 1..MaxSubmits : abCalls[k] = "idle"
    /\ IF inputValue = "" \/ abIsLoading
       THEN /\ abCalls' = [abCalls EXCEPT ![NextSubmit] = "returned"]
            /\ UNCHANGED <<abRef, abAborted, abIsLoading>>
       ELSE /\ abAborted' = IF abRef # 0 THEN abAborted \cup {abRef} ELSE abAborted
            /\ abRef' = NextSubmit
            /\ abIsLoading' = TRUE
            /\ abCalls' = [abCalls EXCEPT ![NextSubmit] = "fetch"]
    /\ UNCHANGED abMounted
    /\ abOthers

(* await fetch(...) resolves with a response that is ok and has a body.    *)
abFetchResolves(k) ==
    /\ abCalls[k] = "fetch"
    /\ k \notin abAborted
    /\ abCalls' = [abCalls EXCEPT ![k] = "read"]
    /\ UNCHANGED <<abRef, abAborted, abIsLoading, abMounted>>
    /\ abOthers

(* reader.read() gives a chunk with one frame: FinalOutputEvent and the    *)
(* error events call setIsLoading(false), the others leave the flag.       *)
abChunk(k, event_type) ==
    /\ abCalls[k] = "read"
    /\ k \notin abAborted
    /\ abIsLoading' = IF event_type \in {"FinalOutputEvent", "ServerError", "AgentErrorEvent"}
                      THEN FALSE
                      ELSE abIsLoading
    /\ UNCHANGED <<abRef, abCalls, abAborted, abMounted>>
    /\ abOthers

(* reader.read() gives done: setIsLoading(false), break, finally.          *)
abDone(k) ==
    /\ abCalls[k] = "read"
    /\ k \notin abAborted
    /\ abIsLoading' = FALSE
    /\ abRef' = settle(k)
    /\ abCalls' = [abCalls EXCEPT ![k] = "ended"]
    /\ UNCHANGED <<abAborted, abMounted>>
    /\ abOthers

(* The pending await of call k rejects, with AbortError when controller k  *)
(* was aborted, with another error otherwise: catch, then finally.         *)
abRejects(k) ==
    /\ abCalls[k] \in {"fetch", "read"}
    /\ abIsLoading' = FALSE
    /\ abRef' = settle(k)
    /\ abCalls' = [abCalls EXCEPT ![k] = "ended"]
    /\ UNCHANGED <<abAborted, abMounted>>
    /\ abOthers

(* The cleanup of the mount effect: abortControllerRef.current?.abort().   *)
abUnmount ==
    /\ abMounted
    /\ abMounted' = FALSE
    /\ abAborted' = IF abRef # 0 THEN abAborted \cup {abRef} ELSE abAborted
    /\ UNCHANGED <<abRef, abCalls, abIsLoading>>
    /\ abOthers

AbortInit ==
    /\ LateIdle
    /\ PageInit
    /\ SplitIdle
    /\ DecodeIdle
    /\ ReplayIdle
    /\ InterfaceIdle
    /\ ReducerIdle

AbortNext ==
    \/ \E inputValue \in {"", "hello"} : abSubmit(inputValue)
    \/ \E k \in 1..MaxSubmits : abFetchResolves(k)
    \/ \E k \in 1..MaxSubmits :
          \E event_type \in {"RawResponsesStreamEvent", "FinalOutputEvent", "ServerError"} :
              abChunk(k, event_type)
    \/ \E k \in 1..MaxSubmits : abDone(k)
    \/ \E k \in 1..MaxSubmits : abRejects(k)
    \/ abUnmount

AbortSpec == AbortInit /\ [][AbortNext]_vars

----------------------------------------------------------------------------
(* Properties of the page.                                                 *)

(* A call whose submit passed the guard; one that has not returned yet;    *)
(* one after which a later submit was accepted.                            *)
Accepted(s) == sess[s].pc \in {"fetch", "read", "done", "failed"}

Running(s) == sess[s].pc \in {"fetch", "read"}

Superseded(s) == \E r \in Sessions : r > s /\ Accepted(r)

(* The store holds id as the message being streamed.                       *)
Streaming(id) ==
    /\ Has(state.messages, id)
    /\ state.messages[id].isLoading
    /\ state.loadingMessageId = id

(* C1: once a later submit has been accepted, no step of an earlier call   *)
(* that is still under way (a chunk, its done, its failure) changes the    *)
(* conversation state or the accumulator the new call works with.          *)
C1_SupersededSessionIsInert ==
    [][\A s \in Sessions :
          (Running(s) /\ Superseded(s) /\ sess'[s] # sess[s])
              => /\ state' = state
                 /\ currentAssistantJsonBuffer' = currentAssistantJsonBuffer]_vars

(* C2: in every reachable state, if a later submit has started its         *)
(* request, no earlier call is still in its read loop.                     *)
C2_OneReadLoop ==
    \A s, r \in Sessions : (s < r /\ Accepted(r)) => sess[s].pc # "read"

C4_ErrorForceCompletes ==
    [][\A s \in Sessions :
          (/\ sess[s].pc = "read"
           /\ ~sess[s].errored
           /\ sess'[s].errored
           /\ sess[s].activeMessageId # EmptyId
           /\ Streaming(sess[s].activeMessageId)
           /\ state.currentAssistantMessageId = sess[s].activeMessageId)
              => /\ Has(state'.messages, sess[s].activeMessageId)
                 /\ state'.messages[sess[s].activeMessageId].isLoading = FALSE
                 /\ state'.messages[sess[s].activeMessageId].content
                        = state.messages[sess[s].activeMessageId].content]_vars

(* C5: once a call has handled an error event, no later chunk it reads     *)
(* changes the conversation state.                                         *)
C5_ErroredIsTerminal ==
    [][\A s \in Sessions :
          (/\ sess[s].errored
           /\ sess[s].pc = "read"
           /\ sess'[s].pc = "read"
           /\ sess'[s] # sess[s])
              => state' = state]_vars

(* C6: when every call that was made has ended (done, failed or returned   *)
(* at the guard) and at least one stream has terminated, the global        *)
(* isLoading flag is false.                                                *)
C6_EndedIsIdle ==
    (/\ \A s \in Sessions : ~Running(s)
     /\ \E s \in Sessions : sess[s].pc \in {"done", "failed"})
        => ~state.isLoading

(* C9: when the transport ends while the buffer holds the unterminated     *)
(* frame of START_ASSISTANT_MESSAGE a1, the frame still takes effect: the  *)
(* conversation holds a1 afterwards.                                       *)
C9_RemainderFlushed ==
    [][\A s \in Sessions :
          (/\ sess[s].pc = "read"
           /\ sess'[s].pc = "done"
           /\ Trim(sess[s].fetchBuffer) = Line(PStart1))
              => Has(state'.messages, ServerId(1))]_vars

----------------------------------------------------------------------------
(* Properties of the splitter.                                             *)

NoDelimiter(text) ==
    /\ IndexOf(text, LFLF) = -1
    /\ IndexOf(text, CRLFCRLF) = -1

(* The block the first turn of the loop cuts off.                          *)
FirstBlock(variant, buffer) ==
    IF variant = "ChatPage" THEN rawEventData(buffer) ELSE messageBlock(buffer)

EarliestDelimiter(buffer) ==
    IF IndexOf(buffer, LFLF) < IndexOf(buffer, CRLFCRLF)
    THEN IndexOf(buffer, LFLF)
    ELSE IndexOf(buffer, CRLFCRLF)

(* A block that trims to nothing is no frame: processStreamChunk skips     *)
(* it, the loop of handleSendMessage finds no "data: " in it.              *)
IsFrame(block) == block # <<>>

Frames(blocks) == SelectSeq(blocks, IsFrame)

(* C7: when all of a stream text has been fed, in whatever chunks, the     *)
(* frames cut off are, in order, those the loop cuts off the whole text    *)
(* fed at once.                                                            *)
C7_ChunkingInvariant ==
    splRest = <<>> => Frames(splOut) = Frames(Splitter(splVariant, splText).frames)

(* C8: when a buffer that holds both delimiters, with text before the      *)
(* earlier of the two, has been fed whole, the first block cut off is      *)
(* that text, and holds no delimiter.                                      *)
C8_EarliestDelimiterWins ==
    (/\ splFeeds = 1
     /\ splRest = <<>>
     /\ IndexOf(splText, LFLF) # -1
     /\ IndexOf(splText, CRLFCRLF) # -1
     /\ Trim(Substring2(splText, 0, EarliestDelimiter(splText))) # <<>>)
        => /\ FirstBlock(splVariant, splText)
                = Trim(Substring2(splText, 0, EarliestDelimiter(splText)))
           /\ NoDelimiter(FirstBlock(splVariant, splText))

(* C10: a text without a delimiter yields no block, however it is fed,     *)
(* and the carried remainder is the text fed so far.                       *)
C10_NoDelimiterNoFrame ==
    NoDelimiter(splText)
        => /\ splOut = <<>>
           /\ splCarry \o splRest = splText
           /\ Splitter(splVariant, splText) = [frames |-> <<>>, rest |-> splText]

(* All of a text that holds line feeds and a carriage return, but no       *)
(* delimiter, has been fed.                                                *)
C10_Witness ==
    /\ NoDelimiter(splText)
    /\ Len(splText) >= 4
    /\ \E i, j \in 1..Len(splText) : splText[i] = LF /\ splText[j] = CR
    /\ splFeeds >= 1
    /\ splRest = <<>>
    /\ splCarry = splText

----------------------------------------------------------------------------
(* Properties of the decoders.                                             *)

(* The frame that holds only the data line of frame, in its usual form.    *)
DataLineOnly(frame) == <<DATA, SP, frame[Len(frame)]>>

(* C11: a frame with field lines before its data line, or with no blank    *)
(* after "data:", decodes to the event of the frame that holds only that   *)
(* data line.                                                              *)
C11_DataLineDecoded ==
    decOut # <<>> => decOut[1] = Decode(decVariant, DataLineOnly(decFrame))

----------------------------------------------------------------------------
(* Properties of one call of handleSendMessage.                            *)

(* C12: a frame whose data is not valid JSON changes nothing the call     *)
(* holds (the conversation state, the accumulator, the buffer, the active  *)
(* id), so the frames after it take the effect they have without it; the   *)
(* same holds of a frame that follows it in the same chunk.                *)
C12_MalformedFrameSkipped ==
    [][rplog' = Append(rplog, PMalformed)
          => /\ rpc' = rpc
             /\ \A p \in Payloads :
                   Process(rpc, Line(PMalformed) \o LFLF \o Line(p) \o LFLF, ReplayClock)
                       = Process(rpc, Line(p) \o LFLF, ReplayClock)]_vars

(* The stream has delivered a frame of invalid JSON and, after it, the     *)
(* frame that starts a1, which is in the conversation.                     *)
C12_Witness ==
    /\ \E i, j \in 1..Len(rplog) : i < j /\ rplog[i] = PMalformed /\ rplog[j] = PStart1
    /\ Has(rpc.state.messages, ServerId(1))
    /\ rpc.activeMessageId = ServerId(1)

(* log[i] is a START and every frame from log[i+1] to log[j] is a delta.   *)
StartThenDeltas(log, i, j) ==
    /\ StartedId(log[i]) # EmptyId
    /\ \A k \in (i + 1)..j : log[k] \in DeltaPayloads

(* The texts of the deltas log[i+1] .. log[j], in order.                   *)
RECURSIVE DeltasBetween(_, _, _)
DeltasBetween(log, i, j) ==
    IF j <= i THEN <<>>
    ELSE Append(DeltasBetween(log, i, j - 1), DeltaText(log[j]))

(* C14: when the frames of the stream end with START X, any deltas and     *)
(* COMPLETE X, message X has isLoading false and both active ids of the    *)
(* store are null, before and after the stream ends.                       *)
C14_StartDeltasComplete ==
    \A i \in 1..Len(rplog) :
        (/\ i < Len(rplog)
         /\ StartThenDeltas(rplog, i, Len(rplog) - 1)
         /\ rplog[Len(rplog)] = CompleteOf(StartedId(rplog[i])))
            => /\ Has(rpc.state.messages, StartedId(rplog[i]))
               /\ rpc.state.messages[StartedId(rplog[i])].isLoading = FALSE
               /\ rpc.state.loadingMessageId = Null
               /\ rpc.state.currentAssistantMessageId = Null
               /\ rpc.activeMessageId = EmptyId

(* The stream has delivered START a1, two deltas, COMPLETE a1.             *)
C14_Witness ==
    /\ rplog = <<PStart1, PDeltaClose, PDeltaOpen, PComplete1>>
    /\ rpc.state.messages[ServerId(1)].isLoading = FALSE

(* C15: when the frames of the stream end with START X and deltas whose    *)
(* texts add up to a JSON object with the field agent_response_text,       *)
(* followed or not by COMPLETE X, the content of X is the value of that    *)
(* field: put in place of what was there, not added to it.                 *)
C15_JsonReplacesContent ==
    \A i \in 1..Len(rplog) : \A j \in i..Len(rplog) :
        (/\ StartThenDeltas(rplog, i, j)
         /\ JSONparseBuffer(DeltasBetween(rplog, i, j)).ok
         /\ JSONparseBuffer(DeltasBetween(rplog, i, j)).hasField
         /\ \/ j = Len(rplog)
            \/ j + 1 = Len(rplog) /\ rplog[j + 1] = CompleteOf(StartedId(rplog[i])))
            => /\ Has(rpc.state.messages, StartedId(rplog[i]))
               /\ rpc.state.messages[StartedId(rplog[i])].content
                      = JSONparseBuffer(DeltasBetween(rplog, i, j)).agent_response_text

(* The stream has delivered START a1, the two halves of the object and     *)
(* COMPLETE a1; a1 is complete and shows the field's value.                *)
C15_Witness ==
    /\ rplog = <<PStart1, PDeltaOpen, PDeltaClose, PComplete1>>
    /\ rpc.state.messages[ServerId(1)].content = <<"Here are 3 players">>
    /\ rpc.state.messages[ServerId(1)].isLoading = FALSE

(* C16: when the frames of the stream end with START X and deltas whose    *)
(* texts do not add up to JSON with the primary field, followed or not by  *)
(* COMPLETE X, the content of X is the texts of those deltas in order.     *)
C16_DeltasAppendedVerbatim ==
    \A i \in 1..Len(rplog) : \A j \in i..Len(rplog) :
        (/\ StartThenDeltas(rplog, i, j)
         /\ \A k \in i..j : ~JSONparseBuffer(DeltasBetween(rplog, i, k)).ok
         /\ \/ j = Len(rplog)
            \/ j + 1 = Len(rplog) /\ rplog[j + 1] = CompleteOf(StartedId(rplog[i])))
            => /\ Has(rpc.state.messages, StartedId(rplog[i]))
               /\ rpc.state.messages[StartedId(rplog[i])].content
                      = DeltasBetween(rplog, i, j)

(* C17: a START that comes while the message of an earlier START is still  *)
(* the active one first completes that message (isLoading false, content   *)
(* as it was) and then starts the new one.                                 *)
C17_SecondStartCompletesPrior ==
    [][\A p \in {PStart1, PStart2} :
          (/\ rplog' = Append(rplog, p)
           /\ rpc.activeMessageId \notin {EmptyId, StartedId(p)}
           /\ Has(rpc.state.messages, rpc.activeMessageId)
           /\ rpc.state.messages[rpc.activeMessageId].isLoading
           /\ rpc.state.loadingMessageId = rpc.activeMessageId)
              => /\ rpc'.state.messages[rpc.activeMessageId].isLoading = FALSE
                 /\ rpc'.state.messages[rpc.activeMessageId].content
                        = rpc.state.messages[rpc.activeMessageId].content
                 /\ rpc'.state.loadingMessageId = StartedId(p)
                 /\ rpc'.state.messages[StartedId(p)].isLoading]_vars

(* C22: a COMPLETE_ASSISTANT_MESSAGE frame whose id is not the            *)
(* activeMessageId of the call is ignored: the store, the active message   *)
(* and the accumulator are as they were.                                   *)
C22_CompleteForOtherIdIgnored ==
    [][\A id \in {ServerId(1), ServerId(2)} :
          (/\ rplog' = Append(rplog, CompleteOf(id))
           /\ rpc.activeMessageId # id)
              => rpc' = rpc]_vars

(* COMPLETE a2 came while a1 was active with one delta accumulated: a1 is  *)
(* still loading and the accumulator still holds the delta.                *)
C22_Witness ==
    /\ rplog = <<PStart1, PDeltaOpen, PComplete2>>
    /\ rpc.activeMessageId = ServerId(1)
    /\ rpc.state.loadingMessageId = ServerId(1)
    /\ rpc.state.messages[ServerId(1)].isLoading
    /\ rpc.jsonBuffer = <<DeltaOpen>>

(* C23: when the stream ends (done) while a message is active, with no    *)
(* COMPLETE_ASSISTANT_MESSAGE received for it, the message is completed:   *)
(* isLoading false on the message and on the store, both active ids null,  *)
(* the content as it was.                                                  *)
C23_DoneForceCompletes ==
    [][(/\ ~rpended /\ rpended'
        /\ rpc.activeMessageId # EmptyId
        /\ rpc.state.loadingMessageId = rpc.activeMessageId)
           => /\ Has(rpc'.state.messages, rpc.activeMessageId)
              /\ rpc'.state.messages[rpc.activeMessageId].isLoading = FALSE
              /\ rpc'.state.messages[rpc.activeMessageId].content
                     = rpc.state.messages[rpc.activeMessageId].content
              /\ rpc'.state.isLoading = FALSE
              /\ rpc'.state.loadingMessageId = Null
              /\ rpc'.state.currentAssistantMessageId = Null]_vars

(* The stream ended after START a1, one delta and an agent update: a1 is   *)
(* complete with the content it had.                                       *)
C23_Witness ==
    /\ rpended
    /\ rplog = <<PStart1, PDeltaOpen, PAgent>>
    /\ rpc.state.messages[ServerId(1)].isLoading = FALSE
    /\ rpc.state.isLoading = FALSE
    /\ rpc.state.loadingMessageId = Null

----------------------------------------------------------------------------
(* Properties of the message store of ChatPage, over every interleaving of *)
(* calls of handleSendMessage.                                             *)

(* C19: in every reachable state messageOrder holds each id at most once.  *)
C19_OrderHasNoDuplicates ==
    \A i, j \in 1..Len(state.messageOrder) :
        i # j => state.messageOrder[i] # state.messageOrder[j]

----------------------------------------------------------------------------
(* Properties of one call of ChatInterface.handleSubmit.                   *)

(* C13: a frame whose event_type is none of the recognized ones changes    *)
(* nothing the component holds: no message is made, no content, agent      *)
(* name or loading flag changes.                                           *)
C13_UnknownEventIgnored ==
    [][cilog' = Append(cilog, PUnknown) => ci' = ci]_vars

(* C25: a delta or agent-name update that arrives while no message is     *)
(* active is dropped: the conversation state is unchanged and no message   *)
(* is created.                                                             *)
C25_EventWithoutActiveMessageDropped ==
    [][\A p \in {PDeltaOpen, PDeltaClose, PAgent} :
          (/\ cilog' = Append(cilog, p)
           /\ ci.currentAssistantMessageId = Null)
              => ci' = ci]_vars

(* The first piece of the content of a message made for a failure.        *)
ErrorPrefixes == {"Error: ", "Backend error: "}

(* C24: an error event of the stream adds exactly one message to the       *)
(* conversation, an assistant message whose content starts with an error   *)
(* prefix, and leaves isLoading false.                                     *)
C24_ErrorAddsOneMessage ==
    [][cilog' = Append(cilog, PServerError)
          => /\ Len(ci'.messages) = Len(ci.messages) + 1
             /\ ci'.messages[Len(ci'.messages)].role = "assistant"
             /\ Head(ci'.messages[Len(ci'.messages)].content) \in ErrorPrefixes
             /\ ci'.isLoading = FALSE]_vars

----------------------------------------------------------------------------
(* Properties of chatReducer.                                              *)

(* C20: an APPEND_DELTA whose id is not loadingMessageId leaves            *)
(* state.messages as it was.                                               *)
C20_DeltaForInactiveIdIgnored ==
    [][\A id \in ReducerIds :
          (/\ rdAction' = [type |-> "APPEND_DELTA", id |-> id]
           /\ rdCount' = rdCount + 1
           /\ rdState.loadingMessageId # id)
              => rdState'.messages = rdState.messages]_vars

(* An APPEND_DELTA for a1 was dispatched while a1 was in the store and a2  *)
(* was the loading message.                                                *)
C20_Witness ==
    /\ rdAction = [type |-> "APPEND_DELTA", id |-> ServerId(1)]
    /\ Has(rdState.messages, ServerId(1))
    /\ rdState.loadingMessageId = ServerId(2)
    /\ rdState.messages[ServerId(1)].content = <<>>

(* An active id that is set names a message of the store that is loading.  *)
ActiveIsLoading(st, id) ==
    id # Null => Has(st.messages, id) /\ st.messages[id].isLoading

(* C18: in every state the reducer can reach, whatever the order of the    *)
(* actions, loadingMessageId and currentAssistantMessageId, when set, are  *)
(* keys of messages and the message they name has isLoading true.          *)
C18_ActiveIdNamesLoadingMessage ==
    /\ ActiveIsLoading(rdState, rdState.loadingMessageId)
    /\ ActiveIsLoading(rdState, rdState.currentAssistantMessageId)

(* a2 is the active message, started while a1 was still loading.           *)
C18_Witness ==
    /\ rdState.loadingMessageId = ServerId(2)
    /\ rdState.currentAssistantMessageId = ServerId(2)
    /\ Has(rdState.messages, ServerId(1))
    /\ rdState.messages[ServerId(1)].isLoading
    /\ rdState.messages[ServerId(2)].isLoading

(* The actions of chatReducer that append to or update one message.        *)
UpdateActions == {"APPEND_DELTA", "UPDATE_ASSISTANT_JSON_CONTENT", "UPDATE_AGENT_NAME"}

(* C21: an APPEND_DELTA, UPDATE_ASSISTANT_JSON_CONTENT or                  *)
(* UPDATE_AGENT_NAME whose id is not loadingMessageId returns the state    *)
(* unchanged, also when the id names a message that was completed.         *)
C21_UpdateForInactiveIdRejected ==
    [][\A type \in UpdateActions : \A id \in ReducerIds :
          (/\ rdAction' = [type |-> type, id |-> id]
           /\ rdCount' = rdCount + 1
           /\ rdState.loadingMessageId # id)
              => rdState' = rdState]_vars

(* C26: right after RESET_CHAT the store is the initial one, whatever was  *)
(* dispatched before: no messages, empty order, isLoading false, no        *)
(* active id.                                                              *)
C26_ResetGivesInitialState ==
    rdAction.type = "RESET_CHAT"
        => /\ DOMAIN rdState.messages = {}
           /\ rdState.messageOrder = <<>>
           /\ rdState.isLoading = FALSE
           /\ rdState.loadingMessageId = Null
           /\ rdState.currentAssistantMessageId = Null

(* RESET_CHAT was dispatched after at least three other actions, one of    *)
(* them a user message or an error a millisecond after the first.          *)
C26_Witness ==
    /\ rdAction.type = "RESET_CHAT"
    /\ rdCount >= 4
    /\ rdNow >= 1
    /\ rdState = initialState

----------------------------------------------------------------------------
(* Properties of the partial-JSON extraction.                              *)

(* The accumulator value the step parsed: the one before a completion,     *)
(* the one after a delta.                                                  *)
C27_StepIsParse ==
    \/ exCount' = exCount + 1 /\ exc.activeMessageId # EmptyId
    \/ exc'.activeMessageId = EmptyId /\ exc.activeMessageId # EmptyId

(* C27: for every accumulator value, incomplete JSON and JSON that is not  *)
(* an object included, no exception leaves the parse attempt of a delta    *)
(* or of the completion, and when no agent_response_text is extracted the  *)
(* content of the message is left as it was.                               *)
C27_ExtractionNeverRaises ==
    [][C27_StepIsParse
          => /\ ~exRaised'
             /\ \A buf \in {IF exc'.activeMessageId = EmptyId
                            THEN exc.jsonBuffer ELSE exc'.jsonBuffer} :
                   ~(JSONparseBuffer(buf).ok /\ JSONparseBuffer(buf).hasField)
                       => exc'.state.messages[ServerId(1)].content
                              = exc.state.messages[ServerId(1)].content]_vars

(* The accumulator is the JSON text null, parsed while a1 showed the       *)
(* validation text: the text is still there and nothing was raised.        *)
C27_Witness ==
    /\ exc.jsonBuffer = <<JsonNull>>
    /\ exc.activeMessageId = ServerId(1)
    /\ exc.state.messages[ServerId(1)].content = <<"Invalid code">>
    /\ ~exRaised

----------------------------------------------------------------------------
(* Properties of the scroll effects.                                       *)

(* C28: when the message order changes, the view goes to the bottom if     *)
(* the change was the user's own send or the view was at the bottom, and   *)
(* in every other case the view stays where it was.                        *)
C28_AutoScrollOnlyWhenDue ==
    [][scOrderLen' # scOrderLen
          => IF scLastUserSend' # scLastUserSend \/ (~scLoading /\ scLoading')
                \/ scIsAtBottom
             THEN scPos' = "bottom"
             ELSE scPos' = scPos]_vars

----------------------------------------------------------------------------
(* Properties of two read loops at once.                                   *)

(* C29: while a message is the active one, the accumulator is the          *)
(* concatenation of the deltas delivered, since its most recent            *)
(* START_ASSISTANT_MESSAGE, by the stream that started the active message. *)
C29_AccumulatorOfActiveMessage ==
    duState.loadingMessageId # Null => duBuffer = duSince[duOwner]

----------------------------------------------------------------------------
(* Properties of the user message.                                         *)

IsUserMessage(st, id) == Has(st.messages, id) /\ st.messages[id].role = "user"

(* C30: an action other than RESET_CHAT leaves every user message in the   *)
(* store, with the role and the content it had.                            *)
C30_UserMessageImmutable ==
    [][\A t \in 0..MaxDispatches :
          (/\ IsUserMessage(rdState, UserId(t))
           /\ rdCount' = rdCount + 1
           /\ rdAction'.type # "RESET_CHAT")
              => /\ IsUserMessage(rdState', UserId(t))
                 /\ rdState'.messages[UserId(t)].content
                        = rdState.messages[UserId(t)].content]_vars

----------------------------------------------------------------------------
(* Properties of messageOrder.                                             *)

IsPrefixOf(before, after) ==
    /\ Len(before) <= Len(after)
    /\ SubSeq(after, 1, Len(before)) = before

(* C31: every action of the reducer other than RESET_CHAT leaves the order *)
(* it found as a prefix of the order it leaves.                            *)
C31_OrderAppendOnly ==
    [][(rdCount' = rdCount + 1 /\ rdAction'.type # "RESET_CHAT")
          => IsPrefixOf(rdState.messageOrder, rdState'.messageOrder)]_vars

(* A START_ASSISTANT_MESSAGE was dispatched on an order that held two ids  *)
(* or more: the order has grown at its end.                                *)
C31_Witness ==
    /\ rdAction.type = "START_ASSISTANT_MESSAGE"
    /\ Len(rdState.messageOrder) >= 3
    /\ rdState.messageOrder[Len(rdState.messageOrder)] = rdAction.id
    /\ rdState.messageOrder[1] # rdAction.id

----------------------------------------------------------------------------
(* Properties of the reset.                                                *)

(* C32: when the conversation is empty while a call is still in its read   *)
(* loop, as it is after RESET_CHAT during a stream, a chunk read by such a *)
(* call leaves the conversation empty: no message, no loading flag.        *)
C32_ResetSilencesStream ==
    [][\A s \in Sessions :
          (/\ state = initialState
           /\ sess[s].pc = "read"
           /\ sess'[s].pc = "read"
           /\ steps' = steps + 1
           /\ \A r \in Sessions : sess'[r].pc = sess[r].pc)
              => state' = initialState]_vars

----------------------------------------------------------------------------
(* Properties of the loading flags.                                        *)

LoadingMessages(st) == {id \in DOMAIN st.messages : st.messages[id].isLoading}

(* C33: in every state of a call, at most one message has isLoading true,  *)
(* and none has while loadingMessageId is null.                            *)
C33_NoStaleLoadingMessage ==
    /\ Cardinality(LoadingMessages(rpc.state)) <= 1
    /\ rpc.state.loadingMessageId = Null => LoadingMessages(rpc.state) = {}

----------------------------------------------------------------------------
(* Properties of the submit guard.                                         *)

Requests == {s \in Sessions : sess[s].pc \in {"fetch", "read"}}

(* C34: a call of handleSendMessage made while isLoading is true adds no   *)
(* message, starts no request, reads no clock for an id and leaves the     *)
(* store and the accumulator as they were.                                 *)
C34_SubmitWhileLoadingNoOp ==
    [][(/\ state.isLoading
        /\ \E s \in Sessions : sess[s].pc = "idle" /\ sess'[s].pc # "idle")
          => /\ state' = state
             /\ now' = now
             /\ currentAssistantJsonBuffer' = currentAssistantJsonBuffer
             /\ {s \in Sessions : sess'[s].pc \in {"fetch", "read"}} = Requests]_vars

(* A submit has returned at the guard while the request of the first       *)
(* submit was still waiting for its response: the conversation holds the   *)
(* one user message.                                                       *)
C34_Witness ==
    \E s, r \in Sessions :
        /\ s < r
        /\ sess[s].pc = "fetch"
        /\ sess[r].pc = "returned"
        /\ state.isLoading
        /\ Len(state.messageOrder) = 1
        /\ Requests = {s}

----------------------------------------------------------------------------
(* Properties of the two active ids.                                       *)

(* What the guard of COMPLETE_ASSISTANT_MESSAGE lets through: in the       *)
(* reducer of ChatPage with UPDATE_ASSISTANT_JSON_CONTENT either id may    *)
(* match, in the reducer of the chat page with APPEND_DELTA only           *)
(* loadingMessageId counts.                                                *)
completeAcceptedEitherId(st, id) ==
    ~(st.loadingMessageId # id /\ st.currentAssistantMessageId # id)

completeAcceptedLoadingId(st, id) == ~(st.loadingMessageId # id)

(* C35: in every state the reducer can reach, loadingMessageId and         *)
(* currentAssistantMessageId are equal, and the two guards of              *)
(* COMPLETE_ASSISTANT_MESSAGE accept the same ids.                         *)
C35_ActiveIdsEqual ==
    /\ rdState.loadingMessageId = rdState.currentAssistantMessageId
    /\ \A id \in ReducerIds :
          completeAcceptedEitherId(rdState, id) <=> completeAcceptedLoadingId(rdState, id)

(* An error was dispatched while a2 was the active message, a1 having been *)
(* started before it: both ids are null again.                             *)
C35_Witness ==
    /\ rdAction.type = "SET_ERROR"
    /\ rdState.loadingMessageId = Null
    /\ rdState.currentAssistantMessageId = Null
    /\ Has(rdState.messages, ServerId(1))
    /\ Has(rdState.messages, ServerId(2))
    /\ rdState.messages[ServerId(2)].isLoading

----------------------------------------------------------------------------
(* Properties of the abort controller.                                     *)

(* C36: while a request of ChatInterface is in flight (its call waits for  *)
(* the response or reads the stream and its controller is not aborted),    *)
(* abortControllerRef holds the controller of that request.                *)
C36_RefHoldsControllerInFlight ==
    \A k \in InFlight : abRef = k

----------------------------------------------------------------------------
(* Properties of the message content.                                      *)

(* C37: whatever the deltas add up to, the content of every message in the *)
(* store is a string.                                                      *)
C37_ContentIsString ==
    \A id \in DOMAIN exc.state.messages : IsString(exc.state.messages[id].content)

----------------------------------------------------------------------------
(* Properties of the validation result.                                    *)

(* C38: a code_validation_result delivered while the call has an active    *)
(* message puts the validation text in the place of that message's content *)
(* and leaves everything else: the message is still loading, the ids, the  *)
(* order, the other messages, the accumulator and the call's               *)
(* activeMessageId are as they were.                                       *)
C38_ValidationReplacesContentOnly ==
    [][(rplog' = Append(rplog, PValidation) /\ rpc.activeMessageId # EmptyId)
          => /\ rpc'.state = [rpc.state EXCEPT
                                 !.messages[rpc.activeMessageId].content = <<"Invalid code">>]
             /\ rpc'.state.messages[rpc.activeMessageId].isLoading
             /\ rpc'.activeMessageId = rpc.activeMessageId
             /\ rpc'.jsonBuffer = rpc.jsonBuffer]_vars

(* The validation result came after START a1 and a first delta: a1 shows   *)
(* the validation text and is still the loading message.                   *)
C38_Witness ==
    /\ rplog = <<PStart1, PDeltaOpen, PValidation>>
    /\ rpc.state.messages[ServerId(1)].content = <<"Invalid code">>
    /\ rpc.state.messages[ServerId(1)].isLoading
    /\ rpc.state.loadingMessageId = ServerId(1)
    /\ rpc.activeMessageId = ServerId(1)
    /\ rpc.state.messageOrder = <<UserId(0), ServerId(1)>>


====
